---- MODULE Spec2Model ----
(***************************************************************************)
(* A model of the baby-tracker URL state codec (src/src/utils/urlState.js, *)
(* dataCompression.js, timestampCompression.js, schemaMapping.js and the   *)
(* encryption helper) as a state machine whose actions apply the codec's   *)
(* functions to inputs drawn from bounded sets.                            *)
(*                                                                         *)
(* JavaScript values are modelled as tagged records [k, d, m, s]:          *)
(*   k  the kind ("undefined", "null", "NaN", "number", "string",          *)
(*      "isostring", "boolean", "Date", "InvalidDate", "object"),          *)
(*   d,m  for a number or an instant, the value d * DAY_MS + m with        *)
(*      0 <= m < DAY_MS (an instant is milliseconds since the epoch; the   *)
(*      split keeps every intermediate value inside TLC's integers),       *)
(*   s  the text of a string.                                              *)
(* An "isostring" is a string holding the ISO-8601 text of the instant     *)
(* (d, m); every other string is text that Date cannot parse.              *)
(***************************************************************************)
EXTENDS Integers, Sequences, FiniteSets, TLC

VARIABLES
    now,        \* the instant Date() returns (environment)
    tz,         \* the local time zone's offset from UTC, in milliseconds
    events,     \* the event array handed to the encoder
    config,     \* the config argument handed to the encoder
    password,   \* the password of the last encrypted encode
    attempt,    \* the password given to the last encrypted decode
    token,      \* the token last produced (or received from the URL)
    result,     \* what the last decode returned: [data, config]
    first,      \* what the first decode of this run returned
    err,        \* the error the last operation threw to its caller, or "none"
    pc,         \* "ready" | "encoded" | "decoded" | "threw"
    round,      \* number of completed encode/decode round trips
    jsonString, \* a JSON text on its way into a token, as code points
    hash,       \* the characters of the token made from jsonString
    decodedString,  \* the text read back from hash
    issued,     \* the encrypted tokens issued so far, oldest first
    appPc,      \* the App component: "unmounted" | "awaitingConfig" | "done" | "crashed"
    locationHash,       \* window.location.hash without '#', as a token
    loading,            \* App state
    error,              \* App state: null or the initialization error
    showPasswordDialog, \* App state
    decryptPassword,    \* App state
    decryptError,       \* App state
    encryptedHash,      \* App state
    effectPending,      \* the URL-sync effect is due: events or showPasswordDialog changed
    hashchanges,        \* hashchange events queued for the listener
    decrypting,         \* the decodeStateEncrypted call handleDecrypt awaits, if any
    table,      \* the server: rows of the events table, in insertion order
    seq,        \* the server: largest rowid AUTOINCREMENT has handed out
    request,    \* the server: body of the request last handled
    response    \* the server: route and status of the response last sent

appVars == <<appPc, locationHash, loading, error, showPasswordDialog, decryptPassword,
             decryptError, encryptedHash, effectPending, hashchanges, decrypting>>

serverVars == <<table, seq, request, response>>

vars == <<now, tz, events, config, password, attempt, token, result, first, err, pc,
          round, jsonString, hash, decodedString, issued, appVars, serverVars>>

----------------------------------------------------------------------------
(* Time arithmetic *)

MINUTE_MS == 60 * 1000
FIFTEEN_MINUTES_MS == 15 * MINUTE_MS
HOUR_MS == 60 * MINUTE_MS
DAY_MS == 24 * HOUR_MS
DAY_S == 24 * 3600

\* value kinds
V(k, d, m, s) == [k |-> k, d |-> d, m |-> m, s |-> s]
Undefined == V("undefined", 0, 0, "")
Null == V("null", 0, 0, "")
NaN == V("NaN", 0, 0, "")
InvalidDate == V("InvalidDate", 0, 0, "")
Num(n) == V("number", n \div DAY_MS, n % DAY_MS, "")
NumDM(d, m) == V("number", d, m, "")
Str(s) == V("string", 0, 0, s)
IsoStr(d, m) == V("isostring", d, m, "")
DateV(d, m) == V("Date", d, m, "")
Obj(s) == V("object", 0, 0, s)
TrueV == V("boolean", 0, 1, "")

\* a carry-normalised (d, m) pair from a day count and a non-negative offset
Norm(d, m) == [d |-> d + (m \div DAY_MS), m |-> m % DAY_MS]

\* numeric comparison of two (d, m) values
LessDM(a, b) == a.d < b.d \/ (a.d = b.d /\ a.m < b.m)
LeqDM(a, b) == a.d < b.d \/ (a.d = b.d /\ a.m <= b.m)

\* x * 1000 for a (d, m) value
Times1000(x) ==
    [d |-> x.d * 1000 + (x.m \div DAY_S), m |-> (x.m % DAY_S) * 1000]

\* Math.floor(x / 1000) for a (d, m) value
FloorDiv1000(x) ==
    LET low == (x.d % 1000) * DAY_S + (x.m \div 1000)
    IN  [d |-> (x.d \div 1000) + (low \div DAY_MS), m |-> low % DAY_MS]

\* JavaScript truthiness (ToBoolean)
Truthy(v) ==
    CASE v.k \in {"undefined", "null", "NaN"} -> FALSE
      [] v.k \in {"number", "boolean"} -> ~(v.d = 0 /\ v.m = 0)
      [] v.k = "string" -> v.s # ""
      [] OTHER -> TRUE

\* event[f] : a missing property reads as undefined
Get(e, f) == IF f \in DOMAIN e THEN e[f] ELSE Undefined

\* { ...e, [f]: v }
With(e, f, v) == [g \in DOMAIN e \cup {f} |-> IF g = f THEN v ELSE e[g]]

IsDate(v) == v.k \in {"Date", "InvalidDate"}

\* new Date(v)
NewDate(v) ==
    CASE v.k = "Date" -> v
      [] v.k = "InvalidDate" -> InvalidDate
      [] v.k = "number" -> DateV(v.d, v.m)
      [] v.k = "isostring" -> DateV(v.d, v.m)
      [] v.k = "null" -> DateV(0, 0)
      [] v.k = "boolean" -> DateV(0, v.m)
      [] OTHER -> InvalidDate

----------------------------------------------------------------------------
(* timestampCompression.js *)

roundTo15Minutes(timestamp) ==
    LET date == IF IsDate(timestamp) THEN timestamp ELSE NewDate(timestamp)
    IN  IF date.k = "InvalidDate" THEN InvalidDate
        ELSE DateV(date.d, (date.m \div FIFTEEN_MINUTES_MS) * FIFTEEN_MINUTES_MS)

dateToUnix(timestamp) ==
    LET date == IF IsDate(timestamp) THEN timestamp ELSE NewDate(timestamp)
    IN  IF date.k = "InvalidDate" THEN NaN
        ELSE LET q == FloorDiv1000(date) IN NumDM(q.d, q.m)

\* new Date(unixTimestamp * 1000); the product of a non-number follows ToNumber
unixToDate(unixTimestamp) ==
    CASE unixTimestamp.k \in {"number", "boolean"} ->
            LET p == Times1000(unixTimestamp) IN DateV(p.d, p.m)
      [] unixTimestamp.k = "null" -> DateV(0, 0)
      [] OTHER -> InvalidDate

compressTimestamp(timestamp) == dateToUnix(roundTo15Minutes(timestamp))

decompressTimestamp(unixTimestamp) == unixToDate(unixTimestamp)

----------------------------------------------------------------------------
(* schemaMapping.js *)

FIELD_MAPPING ==
    [eventType |-> "t", type |-> "ty", amount |-> "a", timestamp |-> "ts",
     id |-> "i", consistency |-> "c"]

REVERSE_MAPPING ==
    [s \in {FIELD_MAPPING[f] : f \in DOMAIN FIELD_MAPPING} |->
        CHOOSE f \in DOMAIN FIELD_MAPPING : FIELD_MAPPING[f] = s]

minifyEvent(event) ==
    LET kept == {f \in DOMAIN FIELD_MAPPING : Get(event, f) # Undefined}
    IN  [s \in {FIELD_MAPPING[f] : f \in kept} |-> event[REVERSE_MAPPING[s]]]

expandEvent(event) ==
    LET mapped == {s \in DOMAIN REVERSE_MAPPING : Get(event, s) # Undefined}
        unmapped == DOMAIN event \ DOMAIN REVERSE_MAPPING
    IN  [f \in {REVERSE_MAPPING[s] : s \in mapped} \cup unmapped |->
            IF f \in unmapped THEN event[f] ELSE event[FIELD_MAPPING[f]]]

minifyEvents(evs) == [i \in 1..Len(evs) |-> minifyEvent(evs[i])]

expandEvents(evs) == [i \in 1..Len(evs) |-> expandEvent(evs[i])]

----------------------------------------------------------------------------
(* dataCompression.js *)

\* the local calendar day (days since the epoch) an instant falls on
LocalDay(date) == date.d + ((date.m + tz) \div DAY_MS)

\* checkDate >= yesterday; every comparison with an Invalid Date is false
isRecentDate(date) ==
    IF date.k = "InvalidDate" THEN FALSE
    ELSE LocalDay(date) >= LocalDay(now) - 1

\* d.toISOString().split('T')[0]: the UTC calendar day, written YYYY-MM-DD.
\* The key is modelled by the day's number; toISOString throws a RangeError
\* on an Invalid Date.
getDateKey(date) ==
    LET d == IF IsDate(date) THEN date ELSE NewDate(date)
    IN  IF d.k = "InvalidDate" THEN [threw |-> TRUE, key |-> 0]
        ELSE [threw |-> FALSE, key |-> d.d]

\* 10000000000, the seconds / milliseconds threshold, as a (d, m) value
SECONDS_THRESHOLD == [d |-> 115, m |-> 64000000]

\* the Date compressEvents derives from event.timestamp
eventDate(event) ==
    LET ts == Get(event, "timestamp")
    IN  IF IsDate(ts) THEN ts
        ELSE IF ts.k = "number"
             THEN IF LessDM(ts, SECONDS_THRESHOLD)
                  THEN LET p == Times1000(ts) IN DateV(p.d, p.m)
                  ELSE NewDate(ts)
             ELSE IF ts.k = "NaN" THEN InvalidDate
             ELSE NewDate(ts)

\* a summary list that gets a new entry for every event, whatever its date
countInSummaryPerEvent(summaries, dateKey, eventType) ==
    Append(summaries,
           [date |-> dateKey,
            feeds |-> IF eventType = Str("feeding") THEN 1 ELSE 0,
            pees |-> IF eventType = Str("peeing") THEN 1 ELSE 0,
            poops |-> IF eventType = Str("pooping") THEN 1 ELSE 0])

\* summariesByDate after counting one more event of eventType on dateKey;
\* Object.values keeps the keys in the order they were first inserted
countInSummary(summaries, dateKey, eventType) ==
    LET have == \E j \in 1..Len(summaries) : summaries[j].date = dateKey
        base == IF have THEN summaries
                ELSE Append(summaries,
                        [date |-> dateKey, feeds |-> 0, pees |-> 0, poops |-> 0])
        bump(sm) ==
            IF eventType = Str("feeding") THEN [sm EXCEPT !.feeds = @ + 1]
            ELSE IF eventType = Str("peeing") THEN [sm EXCEPT !.pees = @ + 1]
            ELSE IF eventType = Str("pooping") THEN [sm EXCEPT !.poops = @ + 1]
            ELSE sm
    IN  [j \in 1..Len(base) |->
            IF base[j].date = dateKey THEN bump(base[j]) ELSE base[j]]

RECURSIVE compressFrom(_, _, _, _)
compressFrom(evs, i, recent, summaries) ==
    IF i > Len(evs)
    THEN [threw |-> FALSE, recent |-> recent, summaries |-> summaries]
    ELSE LET event == evs[i]
             timestamp == eventDate(event)
         IN  IF isRecentDate(timestamp)
             THEN compressFrom(evs, i + 1, Append(recent, event), summaries)
             ELSE LET dk == getDateKey(timestamp)
                  IN  IF dk.threw
                      THEN [threw |-> TRUE, recent |-> <<>>, summaries |-> <<>>]
                      ELSE compressFrom(evs, i + 1, recent,
                              countInSummary(summaries, dk.key,
                                             Get(event, "eventType")))

compressEvents(evs) == compressFrom(evs, 1, <<>>, <<>>)

\* every synthesized event at 12:00:00Z, with no spacing
summaryEventAtNoon(eventType, date, offset) ==
    [f \in {"eventType", "timestamp", "_fromSummary"} |->
        CASE f = "eventType" -> Str(eventType)
          [] f = "timestamp" -> DateV(date, 12 * HOUR_MS)
          [] OTHER -> TrueV]

\* one event synthesized from a day summary: day `date` at 12:00:00Z plus offset
summaryEvent(eventType, date, offset) ==
    LET t == Norm(date, 12 * HOUR_MS + offset)
    IN  [f \in {"eventType", "timestamp", "_fromSummary"} |->
            CASE f = "eventType" -> Str(eventType)
              [] f = "timestamp" -> DateV(t.d, t.m)
              [] OTHER -> TrueV]

\* the three for-loops, each starting one event late
expandSummaryFromOne(summary) ==
    [i \in 1..(summary.feeds - 1) |->
        summaryEvent("feeding", summary.date, i * 3600000)]
    \o [i \in 1..(summary.pees - 1) |->
        summaryEvent("peeing", summary.date, i * 7200000)]
    \o [i \in 1..(summary.poops - 1) |->
        summaryEvent("pooping", summary.date, i * 10800000)]

\* the three for-loops over one summary
expandSummary(summary) ==
    [i \in 1..summary.feeds |->
        summaryEvent("feeding", summary.date, (i - 1) * 3600000)]
    \o [i \in 1..summary.pees |->
        summaryEvent("peeing", summary.date, (i - 1) * 7200000)]
    \o [i \in 1..summary.poops |->
        summaryEvent("pooping", summary.date, (i - 1) * 10800000)]

RECURSIVE expandSummaries(_, _)
expandSummaries(summaries, i) ==
    IF i > Len(summaries) THEN <<>>
    ELSE expandSummary(summaries[i]) \o expandSummaries(summaries, i + 1)

\* a comparator written the other way round: tsB - tsA
sortsBeforeDescending(a, b) ==
    LET tsA == NewDate(Get(a, "timestamp"))
        tsB == NewDate(Get(b, "timestamp"))
    IN  tsA.k = "Date" /\ tsB.k = "Date" /\ LessDM(tsB, tsA)

\* the sort comparator is negative: tsA - tsB < 0  (NaN is never negative)
sortsBefore(a, b) ==
    LET tsA == NewDate(Get(a, "timestamp"))
        tsB == NewDate(Get(b, "timestamp"))
    IN  tsA.k = "Date" /\ tsB.k = "Date" /\ LessDM(tsA, tsB)

\* an unstable sort: x goes before the elements it compares equal to
RECURSIVE sortInsertUnstable(_, _)
sortInsertUnstable(sorted, x) ==
    IF sorted = <<>> THEN <<x>>
    ELSE LET last == sorted[Len(sorted)]
         IN  IF ~sortsBefore(last, x)
             THEN Append(sortInsertUnstable(SubSeq(sorted, 1, Len(sorted) - 1), x),
                         last)
             ELSE Append(sorted, x)

\* Array.prototype.sort is stable: x goes after every element not after it
RECURSIVE sortInsert(_, _)
sortInsert(sorted, x) ==
    IF sorted = <<>> THEN <<x>>
    ELSE LET last == sorted[Len(sorted)]
         IN  IF sortsBefore(x, last)
             THEN Append(sortInsert(SubSeq(sorted, 1, Len(sorted) - 1), x), last)
             ELSE Append(sorted, x)

RECURSIVE sortByTimestamp(_, _, _)
sortByTimestamp(evs, i, sorted) ==
    IF i > Len(evs) THEN sorted
    ELSE sortByTimestamp(evs, i + 1, sortInsert(sorted, evs[i]))

decompressEvents(compressed) ==
    sortByTimestamp(compressed.recent \o expandSummaries(compressed.summaries, 1),
                    1, <<>>)

----------------------------------------------------------------------------
(* JSON text.  JSON.stringify writes a Date as its ISO string, NaN and an   *)
(* Invalid Date as null and leaves out undefined properties; JSON.parse    *)
(* gives back strings, numbers and null, never a Date.  A parsed document  *)
(* is the record                                                           *)
(*   [top, data, r, s, config, items]                                      *)
(* top: the kind of the top-level value; data, r, s: the members of that   *)
(* name, each [shape, items]; config: the config member; items: the        *)
(* elements when the top-level value is itself an array.                   *)

jsonValue(v) ==
    CASE v.k = "Date" -> IsoStr(v.d, v.m)
      [] v.k \in {"InvalidDate", "NaN"} -> Null
      [] OTHER -> v

jsonObject(e) ==
    [f \in {g \in DOMAIN e : e[g].k # "undefined"} |-> jsonValue(e[f])]

jsonArray(evs) == [i \in 1..Len(evs) |-> jsonObject(evs[i])]

Member(shape, items) == [shape |-> shape, items |-> items]
Absent == Member("absent", <<>>)

\* ToBoolean of a member, by shape
truthyShape(shape) == shape \in {"array", "number", "string", "true", "object"}

Doc(top, data, r, s, cfg, items) ==
    [top |-> top, data |-> data, r |-> r, s |-> s, config |-> cfg, items |-> items]
NoDoc == Doc("none", Absent, Absent, Absent, Undefined, <<>>)

\* a token: kind is "base64url" (alphabet and length are right and the bytes
\* are the UTF-8 text of the JSON document doc), "enc" (prefix enc: followed by
\* `parts` dot-separated segments), or the stage at which decoding it fails
NoBox == [parts |-> 0, salt |-> 0, iv |-> 0, key |-> <<>>, sealedIv |-> 0, pt |-> NoDoc,
          segments |-> <<>>]
Token(kind, doc, box) == [kind |-> kind, doc |-> doc, box |-> box]
PlainToken(doc) == Token("base64url", doc, NoBox)
NoToken == Token("none", NoDoc, NoBox)

EmptyState == [data |-> <<>>, config |-> Null]

----------------------------------------------------------------------------
(* urlState.js *)

\* the events.map callback of encodeState
processEvent(event) ==
    IF Truthy(Get(event, "timestamp"))
    THEN With(event, "timestamp", compressTimestamp(event["timestamp"]))
    ELSE event

\* an array argument of a call: the array, or null / undefined
Given(list) == [given |-> TRUE, list |-> list]
NotGiven == [given |-> FALSE, list |-> <<>>]

\* an encoder that calls events.map without the `|| []` default
encodeStateWithoutDefault(evs, cfg) ==
    LET processedEvents == [i \in 1..Len(evs.list) |-> processEvent(evs.list[i])]
        compressed == compressEvents(processedEvents)
        minifiedRecent == minifyEvents(compressed.recent)
    IN  IF ~evs.given \/ compressed.threw THEN [threw |-> TRUE, token |-> NoToken]
        ELSE [threw |-> FALSE,
              token |-> PlainToken(Doc("object", Absent,
                            Member("array", jsonArray(minifiedRecent)),
                            Member("array", compressed.summaries),
                            Undefined, <<>>))]

\* encodeState: [threw, token]; the RangeError of getDateKey is not caught
encodeState(evs, cfg) ==
    LET data == IF evs.given THEN evs.list ELSE <<>>
        processedEvents == [i \in 1..Len(data) |-> processEvent(data[i])]
        compressed == compressEvents(processedEvents)
        minifiedRecent == minifyEvents(compressed.recent)
    IN  IF compressed.threw THEN [threw |-> TRUE, token |-> NoToken]
        ELSE [threw |-> FALSE,
              token |-> PlainToken(Doc("object", Absent,
                            Member("array", jsonArray(minifiedRecent)),
                            Member("array", compressed.summaries),
                            Undefined, <<>>))]

\* the final events.map of decodeState: every timestamp becomes a Date
ensureDate(event) ==
    LET ts == Get(event, "timestamp")
    IN  With(event, "timestamp",
             IF IsDate(ts) THEN ts
             ELSE IF ts.k \in {"number", "NaN"} THEN decompressTimestamp(ts)
             ELSE NewDate(ts))

\* the expandEvents(...).map callback of decodeState
expandRecent(event) ==
    LET e == expandEvent(event)
        ts == Get(e, "timestamp")
    IN  With(e, "timestamp",
             IF Truthy(ts) THEN decompressTimestamp(ts) ELSE DateV(now.d, now.m))

\* a format detection that asks which keys the object has, whatever they hold
detectFormatByKeys(state) ==
    IF state.top = "null" THEN "throws"
    ELSE IF state.top = "object" /\ state.data.shape # "absent" THEN "legacy"
    ELSE IF state.top = "object"
              /\ (state.r.shape # "absent" \/ state.s.shape # "absent")
    THEN "compact"
    ELSE IF state.top = "array" THEN "bare"
    ELSE "none"

\* the if / else if / else of decodeState; reading a property of null throws
detectFormat(state) ==
    IF state.top = "null" THEN "throws"
    ELSE IF state.top = "object" /\ truthyShape(state.data.shape) THEN "legacy"
    ELSE IF state.top = "object"
              /\ (truthyShape(state.r.shape) \/ truthyShape(state.s.shape))
    THEN "compact"
    ELSE IF state.top = "array" THEN "bare"
    ELSE "none"

\* the body of decodeState's try block after JSON.parse: [threw, events]
decodeEvents(state) ==
    LET ok(evs) == [threw |-> FALSE, events |-> evs]
        fail == [threw |-> TRUE, events |-> <<>>]
        format == detectFormat(state)
    IN  IF format = "throws" THEN fail
        ELSE IF format = "bare" THEN ok(state.items)
        ELSE IF format = "legacy"
        THEN IF state.data.shape = "array" THEN ok(state.data.items) ELSE fail
        ELSE IF format = "compact"
        THEN LET recentOk == state.r.shape = "array" \/ ~truthyShape(state.r.shape)
                 recent == IF state.r.shape = "array" THEN state.r.items ELSE <<>>
                 \* for...of walks an array, walks the characters of a string
                 \* (none of which has counters), and throws on anything else
                 summariesOk == state.s.shape \in {"array", "string"}
                                    \/ ~truthyShape(state.s.shape)
                 summaries == IF state.s.shape = "array" THEN state.s.items ELSE <<>>
             IN  IF recentOk /\ summariesOk
                 THEN ok(decompressEvents(
                        [recent |-> [i \in 1..Len(recent) |-> expandRecent(recent[i])],
                         summaries |-> summaries]))
                 ELSE fail
        ELSE ok(<<>>)

\* a catch block that hands back the config it had parsed
decodeStateCatchKeepsConfig(encodedString) ==
    IF encodedString.kind # "base64url" THEN EmptyState
    ELSE LET state == encodedString.doc
             decoded == decodeEvents(state)
         IN  [data |-> IF decoded.threw THEN <<>>
                       ELSE [i \in 1..Len(decoded.events) |->
                                ensureDate(decoded.events[i])],
              config |-> IF Truthy(state.config) THEN state.config ELSE Null]

decodeState(encodedString) ==
    IF encodedString.kind \in {"null", "empty"} THEN EmptyState
    ELSE IF encodedString.kind # "base64url" THEN EmptyState
    ELSE LET state == encodedString.doc
             decoded == decodeEvents(state)
         IN  IF decoded.threw THEN EmptyState
             ELSE [data |-> [i \in 1..Len(decoded.events) |->
                                ensureDate(decoded.events[i])],
                   config |-> IF state.top \in {"object", "array"}
                                    /\ Truthy(state.config)
                              THEN state.config ELSE Null]

----------------------------------------------------------------------------
(* The base64url layer of encodeState and decodeState.  A text is a        *)
(* sequence of code points, each named by a string; bytes are 0..255; a    *)
(* token is a sequence of one-character strings.                           *)

MaxText == 3

\* the UTF-8 bytes of the code points of the sample texts: ASCII letters and
\* punctuation, U+00E9, U+597D and U+1F4A9 (the last one a surrogate pair in
\* the JavaScript string)
CodePoints == {"a", "{", ">", "?", "U+00E9", "U+597D", "U+1F4A9"}

utf8Bytes(cp) ==
    CASE cp = "a" -> <<97>>
      [] cp = "{" -> <<123>>
      [] cp = ">" -> <<62>>
      [] cp = "?" -> <<63>>
      [] cp = "U+00E9" -> <<195, 169>>
      [] cp = "U+597D" -> <<229, 165, 189>>
      [] cp = "U+1F4A9" -> <<240, 159, 146, 169>>

\* unescape(encodeURIComponent(str)): one character per UTF-8 byte
RECURSIVE utf8Encode(_)
utf8Encode(str) ==
    IF str = <<>> THEN <<>> ELSE utf8Bytes(Head(str)) \o utf8Encode(Tail(str))

\* decodeURIComponent(escape(binary)): [threw, text]; URIError on bytes that
\* are not well-formed UTF-8
RECURSIVE utf8Decode(_)
utf8Decode(bytes) ==
    IF bytes = <<>> THEN [threw |-> FALSE, text |-> <<>>]
    ELSE LET fits == {cp \in CodePoints :
                         /\ Len(utf8Bytes(cp)) <= Len(bytes)
                         /\ SubSeq(bytes, 1, Len(utf8Bytes(cp))) = utf8Bytes(cp)}
         IN  IF fits = {} THEN [threw |-> TRUE, text |-> <<>>]
             ELSE LET cp == CHOOSE c \in fits : TRUE
                      rest == utf8Decode(SubSeq(bytes, Len(utf8Bytes(cp)) + 1, Len(bytes)))
                  IN  [threw |-> rest.threw, text |-> <<cp>> \o rest.text]

Base64Alphabet ==
    << "A", "B", "C", "D", "E", "F", "G", "H", "I", "J", "K", "L", "M",
       "N", "O", "P", "Q", "R", "S", "T", "U", "V", "W", "X", "Y", "Z",
       "a", "b", "c", "d", "e", "f", "g", "h", "i", "j", "k", "l", "m",
       "n", "o", "p", "q", "r", "s", "t", "u", "v", "w", "x", "y", "z",
       "0", "1", "2", "3", "4", "5", "6", "7", "8", "9", "+", "/" >>

\* btoa: three bytes make four characters, the tail is padded with =
RECURSIVE btoa(_)
btoa(bytes) ==
    LET c(n) == Base64Alphabet[n + 1]
    IN  IF bytes = <<>> THEN <<>>
        ELSE IF Len(bytes) = 1
        THEN <<c(bytes[1] \div 4), c((bytes[1] % 4) * 16), "=", "=">>
        ELSE IF Len(bytes) = 2
        THEN <<c(bytes[1] \div 4), c((bytes[1] % 4) * 16 + (bytes[2] \div 16)),
               c((bytes[2] % 16) * 4), "=">>
        ELSE <<c(bytes[1] \div 4), c((bytes[1] % 4) * 16 + (bytes[2] \div 16)),
               c((bytes[2] % 16) * 4 + (bytes[3] \div 64)), c(bytes[3] % 64)>>
             \o btoa(SubSeq(bytes, 4, Len(bytes)))

\* atob: [threw, bytes]; up to two trailing = are dropped from a string whose
\* length is a multiple of four, then a length of 4k + 1 or a character
\* outside the alphabet is an InvalidCharacterError
RECURSIVE atobGroups(_)
atobGroups(idx) ==
    IF Len(idx) < 2 THEN <<>>
    ELSE LET b1 == idx[1] * 4 + (idx[2] \div 16)
         IN  IF Len(idx) = 2 THEN <<b1>>
             ELSE LET b2 == (idx[2] % 16) * 16 + (idx[3] \div 4)
                  IN  IF Len(idx) = 3 THEN <<b1, b2>>
                      ELSE <<b1, b2, (idx[3] % 4) * 64 + idx[4]>>
                           \o atobGroups(SubSeq(idx, 5, Len(idx)))

atob(chars) ==
    LET n == Len(chars)
        pads == IF n % 4 # 0 \/ n = 0 \/ chars[n] # "=" THEN 0
                ELSE IF chars[n - 1] = "=" THEN 2 ELSE 1
        data == SubSeq(chars, 1, n - pads)
        valid == \A i \in 1..Len(data) :
                     \E k \in 1..64 : Base64Alphabet[k] = data[i]
        index(ch) == (CHOOSE k \in 1..64 : Base64Alphabet[k] = ch) - 1
    IN  IF ~valid \/ Len(data) % 4 = 1 THEN [threw |-> TRUE, bytes |-> <<>>]
        ELSE [threw |-> FALSE,
              bytes |-> atobGroups([i \in 1..Len(data) |-> index(data[i])])]

\* str.replace(/from/g, to)
replaceAll(str, from, to) ==
    [i \in 1..Len(str) |-> IF str[i] = from THEN to ELSE str[i]]

\* a conversion that leaves the padding on the token
toUrlSafeKeepsPadding(base64) ==
    replaceAll(replaceAll(base64, "+", "-"), "/", "_")

\* base64.replace(/\+/g, '-').replace(/\//g, '_').replace(/=/g, '')
toUrlSafe(base64) ==
    LET notPad(ch) == ch # "="
    IN  SelectSeq(replaceAll(replaceAll(base64, "+", "-"), "/", "_"), notPad)

\* the standard alphabet and the padding put back: while (length % 4) += '='
fromUrlSafe(encodedString) ==
    LET base64 == replaceAll(replaceAll(encodedString, "-", "+"), "_", "/")
        missing == (4 - (Len(base64) % 4)) % 4
    IN  base64 \o [i \in 1..missing |-> "="]

----------------------------------------------------------------------------
(* encryption.js.  A password is a sequence of UTF-16 code units: "a", "b", *)
(* a high surrogate "HI" and a low surrogate "LO".  PBKDF2 and AES-GCM are  *)
(* ideal: a derived key is determined by, and determines, the password      *)
(* bytes and the salt; a ciphertext opens only under the key and nonce that *)
(* sealed it.                                                               *)

\* TextEncoder.encode: UTF-8, an unpaired surrogate becoming U+FFFD
RECURSIVE textEncode(_, _)
textEncode(str, i) ==
    IF i > Len(str) THEN <<>>
    ELSE IF str[i] = "HI" /\ i < Len(str) /\ str[i + 1] = "LO"
         THEN <<240, 159, 146, 169>> \o textEncode(str, i + 2)
    ELSE IF str[i] \in {"HI", "LO"}
         THEN <<239, 191, 189>> \o textEncode(str, i + 1)
    ELSE <<IF str[i] = "a" THEN 97 ELSE 98>> \o textEncode(str, i + 1)

deriveKey(pw, salt) == <<textEncode(pw, 1), salt>>

SALT_BYTES == 16
IV_BYTES == 12
TAG_BYTES == 16

\* bufferToBase64Url: the same conversion as in encodeState, on raw bytes
bufferToBase64Url(buffer) == toUrlSafe(btoa(buffer))

\* crypto.getRandomValues(new Uint8Array(n)): the draw numbered `draw`
randomBytes(n, draw) == [i \in 1..n |-> (37 * draw + 11 * i) % 256]

\* an encrypt whose salt and nonce are the same on every call
encryptWithFixedRandoms(plaintext, pw, salt, iv) ==
    [parts |-> 3, salt |-> 1, iv |-> 1,
     key |-> deriveKey(pw, 1), sealedIv |-> 1, pt |-> plaintext,
     segments |->
        << [name |-> "salt",
            atLeast |-> Len(bufferToBase64Url(randomBytes(SALT_BYTES, 1)))],
           [name |-> "iv",
            atLeast |-> Len(bufferToBase64Url(randomBytes(IV_BYTES, 1)))],
           [name |-> "ciphertext",
            atLeast |-> Len(bufferToBase64Url(randomBytes(TAG_BYTES, 0)))] >>]

\* encrypt: the three segments `${saltB64}.${ivB64}.${ciphertextB64}`, each
\* with the number of characters it has at least (AES-GCM's output is the
\* plaintext's length plus the 16-byte tag)
encrypt(plaintext, pw, salt, iv) ==
    [parts |-> 3, salt |-> salt, iv |-> iv,
     key |-> deriveKey(pw, salt), sealedIv |-> iv, pt |-> plaintext,
     segments |->
        << [name |-> "salt",
            atLeast |-> Len(bufferToBase64Url(randomBytes(SALT_BYTES, salt)))],
           [name |-> "iv",
            atLeast |-> Len(bufferToBase64Url(randomBytes(IV_BYTES, iv)))],
           [name |-> "ciphertext",
            atLeast |-> Len(bufferToBase64Url(randomBytes(TAG_BYTES, 0)))] >>]

\* a decrypt that hands whatever it is given to the cipher
decryptWithoutCountCheck(encryptedData, pw) ==
    IF encryptedData.parts = 3
           /\ deriveKey(pw, encryptedData.salt) = encryptedData.key
           /\ encryptedData.iv = encryptedData.sealedIv
    THEN [threw |-> FALSE, error |-> "none", pt |-> encryptedData.pt]
    ELSE [threw |-> TRUE, error |-> "OperationError", pt |-> NoDoc]

\* decrypt: [threw, error, plaintext]
decrypt(encryptedData, pw) ==
    IF encryptedData.parts # 3
    THEN [threw |-> TRUE, error |-> "Invalid encrypted data format", pt |-> NoDoc]
    ELSE IF deriveKey(pw, encryptedData.salt) = encryptedData.key
            /\ encryptedData.iv = encryptedData.sealedIv
    THEN [threw |-> FALSE, error |-> "none", pt |-> encryptedData.pt]
    ELSE [threw |-> TRUE, error |-> "OperationError", pt |-> NoDoc]

\* an encrypted encoder fed the quantized events of the compact path
encodeStateEncryptedQuantized(data, cfg, pw, salt, iv) ==
    LET processed == [i \in 1..Len(data) |-> processEvent(data[i])]
        state == Doc("object", Member("array", jsonArray(processed)), Absent, Absent,
                     IF Truthy(cfg) THEN cfg ELSE Null, <<>>)
    IN  Token("enc", NoDoc, encrypt(state, pw, salt, iv))

\* an encoder that returns the three segments without the enc: prefix
encodeStateEncryptedNoPrefix(data, cfg, pw, salt, iv) ==
    LET state == Doc("object", Member("array", jsonArray(data)), Absent, Absent,
                     IF Truthy(cfg) THEN cfg ELSE Null, <<>>)
    IN  Token("dotted", NoDoc, encrypt(state, pw, salt, iv))

encodeStateEncrypted(data, cfg, pw, salt, iv) ==
    LET state == Doc("object", Member("array", jsonArray(data)), Absent, Absent,
                     IF Truthy(cfg) THEN cfg ELSE Null, <<>>)
    IN  Token("enc", NoDoc, encrypt(state, pw, salt, iv))

\* what split('.') sees once the enc: prefix is removed
encryptedPart(encryptedString) ==
    IF encryptedString.kind = "enc" THEN encryptedString.box
    ELSE [NoBox EXCEPT !.parts = 1]

\* decodeStateEncrypted: [threw, error, state]
decodeStateEncrypted(encryptedString, pw) ==
    IF encryptedString.kind \in {"null", "empty"}
    THEN [threw |-> FALSE, error |-> "none", state |-> EmptyState]
    ELSE LET opened == decrypt(encryptedPart(encryptedString), pw)
             state == opened.pt
         IN  IF opened.threw
             THEN [threw |-> TRUE, error |-> opened.error, state |-> EmptyState]
             ELSE [threw |-> FALSE, error |-> "none",
                   state |-> [data |-> IF state.data.shape = "array"
                                       THEN state.data.items ELSE <<>>,
                              config |-> IF Truthy(state.config)
                                         THEN state.config ELSE Null]]

\* isUrlEncrypted: hash && hash.startsWith('enc:'); a token of encodeState has
\* no ':' at all
isUrlEncrypted(h) == h.kind \notin {"null", "empty"} /\ h.kind = "enc"

----------------------------------------------------------------------------
(* Inputs *)

MaxEvents == 2
MaxRounds == 2
NowDay == 20762
NumSalts == 2
MaxIssued == 2

Now == DateV(NowDay, 10 * HOUR_MS + 30 * MINUTE_MS + 7123)
TzOffsets == {-5 * HOUR_MS, 0, 13 * HOUR_MS}

At(h, mi, ms) == h * HOUR_MS + mi * MINUTE_MS + ms

SampleEvents ==
    { [eventType |-> Str("feeding"), id |-> Num(1), type |-> Str("bottle"),
       amount |-> Num(0), timestamp |-> DateV(NowDay, At(9, 7, 3250))],
      [eventType |-> Str("peeing"), id |-> Num(2),
       timestamp |-> IsoStr(NowDay, At(9, 7, 3250))],
      [eventType |-> Str("pooping"), id |-> Num(3), consistency |-> Str("soft"),
       notes |-> Str("after nap"), timestamp |-> DateV(NowDay - 1, At(22, 40, 0))],
      [eventType |-> Str("feeding"), id |-> Num(4), amount |-> Null,
       timestamp |-> DateV(NowDay - 3, At(22, 10, 0))],
      [eventType |-> Str("pooping"), id |-> Num(5),
       timestamp |-> IsoStr(NowDay - 3, At(2, 30, 0))],
      [eventType |-> Str("peeing"), id |-> Num(6),
       timestamp |-> NumDM(NowDay - 2, At(23, 30, 0))],
      [eventType |-> Str("bath"), id |-> Num(7),
       timestamp |-> DateV(NowDay - 3, At(22, 10, 0))],
      [id |-> Num(1), type |-> Str("test")],
      [eventType |-> Str("feeding"), id |-> Num(9),
       timestamp |-> Str("yesterday evening")],
      [eventType |-> Str("feeding"), id |-> Num(10), amount |-> Num(120),
       timestamp |-> DateV(NowDay, At(8, 50, 0))],
      [eventType |-> Str("pooping"), id |-> Num(11),
       timestamp |-> DateV(NowDay - 3, At(22, 10, 0))],
      [eventType |-> Str("feeding"), id |-> Num(12),
       timestamp |-> DateV(NowDay + 1, At(8, 0, 0))] }

SeqsUpTo(S, n) == UNION {[1..k -> S] : k \in 0..n}

Configs == {Null, Obj("setting: on")}

Passwords == {<<"a">>, <<"b">>, <<"HI", "LO">>, <<"HI">>, <<"LO">>}

----------------------------------------------------------------------------
(* The codec as a state machine *)

\* no page is open
NoCall == [pending |-> FALSE, hash |-> Token("none", NoDoc, NoBox), pw |-> <<>>]
\* the server has an empty events table and has handled no request
ServerIdle ==
    /\ table = <<>>
    /\ seq = 0
    /\ request = [given |-> FALSE, list |-> <<>>]
    /\ response = [route |-> "none", status |-> 0]

AppIdle ==
    /\ ServerIdle
    /\ appPc = "unmounted"
    /\ locationHash = Token("empty", NoDoc, NoBox)
    /\ loading = TRUE
    /\ error = Null
    /\ showPasswordDialog = FALSE
    /\ decryptPassword = <<>>
    /\ decryptError = ""
    /\ encryptedHash = Token("empty", NoDoc, NoBox)
    /\ effectPending = FALSE
    /\ hashchanges = 0
    /\ decrypting = NoCall

InitCommon ==
    /\ now = Now
    /\ password = <<>>
    /\ attempt = <<>>
    /\ token = NoToken
    /\ result = EmptyState
    /\ first = EmptyState
    /\ err = "none"
    /\ pc = "ready"
    /\ round = 0
    /\ issued = <<>>
    /\ AppIdle

\* no text is in the base64 layer
TextIdle == jsonString = <<>> /\ hash = <<>> /\ decodedString = <<>>

Init ==
    /\ InitCommon
    /\ TextIdle
    /\ tz \in TzOffsets
    /\ events \in SeqsUpTo(SampleEvents, MaxEvents)
    /\ config \in Configs

\* token = encodeState(events, config); a caller with no events may pass null
EncodeState ==
    /\ pc = "ready"
    /\ \E evs \in {Given(events)} \cup (IF events = <<>> THEN {NotGiven} ELSE {}) :
       LET encoded == encodeState(evs, config)
       IN  IF encoded.threw
           THEN /\ pc' = "threw"
                /\ err' = "RangeError"
                /\ token' = token
           ELSE /\ pc' = "encoded"
                /\ err' = "none"
                /\ token' = encoded.token
    /\ UNCHANGED <<now, tz, events, config, password, attempt, result, first, round>>
    /\ UNCHANGED <<jsonString, hash, decodedString, issued>>
    /\ UNCHANGED <<appVars, serverVars>>

\* result = decodeState(token)
DecodeState ==
    /\ pc = "encoded"
    /\ result' = decodeState(token)
    /\ first' = IF round = 0 THEN result' ELSE first
    /\ round' = round + 1
    /\ pc' = "decoded"
    /\ UNCHANGED <<now, tz, events, config, password, attempt, token, err>>
    /\ UNCHANGED <<jsonString, hash, decodedString, issued>>
    /\ UNCHANGED <<appVars, serverVars>>

\* the decoded events are handed back to the encoder
Reencode ==
    /\ pc = "decoded"
    /\ round < MaxRounds
    /\ events' = result.data
    /\ pc' = "ready"
    /\ UNCHANGED <<now, tz, config, password, attempt, token, result, first, err, round>>
    /\ UNCHANGED <<jsonString, hash, decodedString, issued>>
    /\ UNCHANGED <<appVars, serverVars>>

Next == EncodeState \/ DecodeState \/ Reencode

Spec == Init /\ [][Next]_vars

----------------------------------------------------------------------------
(* Decoding whatever the URL hash holds *)

StageFailures == {"badchars", "badlength", "notutf8", "notjson"}
Shapes == {"absent", "array", "null", "zero", "number", "emptystring", "string",
           "false", "true", "object"}

LegacyEvent ==
    [eventType |-> Str("feeding"), id |-> Num(1),
     timestamp |-> IsoStr(NowDay, At(9, 7, 3250))]
MinifiedEvent ==
    [t |-> Str("peeing"), i |-> Num(2), ts |-> NumDM(20, 65831400)]
DaySummary == [date |-> NowDay - 3, feeds |-> 1, pees |-> 0, poops |-> 1]

Members(item) ==
    {Member(sh, <<>>) : sh \in Shapes} \cup {Member("array", <<item>>)}

\* one instant on the wire as ISO string, epoch seconds and epoch milliseconds
WireInstant == [d |-> NowDay, m |-> At(9, 15, 0)]
WireTimestamps ==
    LET sec == FloorDiv1000(WireInstant)
    IN  {IsoStr(WireInstant.d, WireInstant.m), NumDM(sec.d, sec.m),
         NumDM(WireInstant.d, WireInstant.m)}

\* an event with that timestamp in each token format: data, r, bare array
WireDocs ==
    UNION {
        {Doc("object", Member("array", <<With(LegacyEvent, "timestamp", ts)>>),
             Absent, Absent, Undefined, <<>>),
         Doc("object", Absent, Member("array", <<With(MinifiedEvent, "ts", ts)>>),
             Member("array", <<>>), Undefined, <<>>),
         Doc("array", Absent, Absent, Absent, Undefined,
             <<With(LegacyEvent, "timestamp", ts)>>)} : ts \in WireTimestamps }

\* values a hand-made compact token may store as ts: zero, a negative number,
\* 2^31 (one past the 32-bit signed-seconds ceiling), text, null, and a
\* plausible number of seconds
StoredTimestamps ==
    {NumDM(0, 0), NumDM(-1, DAY_MS - 60), NumDM(24, 73883648), Str("abc"), Null,
     NumDM(20, 65831400)}

\* a compact token with one recent event per stored value, and one without ts
StoredTimestampDocs ==
    {Doc("object", Absent, Member("array", <<With(MinifiedEvent, "ts", ts)>>),
         Member("array", <<>>), Undefined, <<>>) : ts \in StoredTimestamps}
    \cup {Doc("object", Absent,
               Member("array", <<[t |-> Str("peeing"), i |-> Num(2)]>>),
               Member("array", <<>>), Undefined, <<>>)}

\* a compact token with two recent events, the first with text for ts
TwoRecentDocs ==
    {Doc("object", Absent,
         Member("array", <<With(MinifiedEvent, "ts", ts), MinifiedEvent>>),
         Member("array", <<>>), Undefined, <<>>) :
        ts \in {Str("abc"), NumDM(20, 65831400 + 900), NumDM(20, 65831400 - 900)}}

\* a compact token with one recent event and one day summary, for every
\* combination of counts up to MaxCount
MaxCount == 2
SummaryDocs ==
    {Doc("object", Absent, Member("array", <<MinifiedEvent>>),
         Member("array", <<[date |-> NowDay - 3, feeds |-> f, pees |-> p,
                            poops |-> q]>>), Undefined, <<>>) :
        f \in 0..MaxCount, p \in 0..MaxCount, q \in 0..MaxCount}

UrlDocs ==
    WireDocs \cup StoredTimestampDocs \cup TwoRecentDocs \cup SummaryDocs \cup
    {Doc(top, Absent, Absent, Absent, Undefined, <<>>) :
        top \in {"null", "number", "string", "boolean"}}
    \cup {Doc("array", Absent, Absent, Absent, Undefined, items) :
        items \in {<<>>, <<LegacyEvent>>}}
    \cup {Doc("object", data, r, s, cfg, <<>>) :
            data \in Members(LegacyEvent), r \in Members(MinifiedEvent),
            s \in Members(DaySummary), cfg \in Configs \cup {Undefined}}

UrlTokens ==
    {Token(k, NoDoc, NoBox) : k \in {"null", "empty"} \cup StageFailures}
    \cup {PlainToken(doc) : doc \in UrlDocs}

InitDecode ==
    /\ InitCommon
    /\ TextIdle
    /\ tz = 0
    /\ events = <<>>
    /\ config = Null

\* getStateFromUrl reads the token from window.location.hash
ReceiveToken ==
    /\ pc = "ready"
    /\ \E t \in UrlTokens : token' = t
    /\ pc' = "encoded"
    /\ UNCHANGED <<now, tz, events, config, password, attempt, result, first, err, round>>
    /\ UNCHANGED <<jsonString, hash, decodedString, issued>>
    /\ UNCHANGED <<appVars, serverVars>>

NextDecode == ReceiveToken \/ DecodeState

SpecDecode == InitDecode /\ [][NextDecode]_vars

----------------------------------------------------------------------------
(* The password path *)

InitEnc ==
    /\ InitCommon
    /\ TextIdle
    /\ tz = 0
    /\ events \in SeqsUpTo(SampleEvents, MaxEvents)
    /\ config \in Configs

\* the salts and the nonces drawn for the tokens issued so far; the random
\* source is taken to be ideal: a draw never repeats an earlier one
drawnSalts == {issued[i].box.salt : i \in 1..Len(issued)}
drawnIvs == {issued[i].box.iv : i \in 1..Len(issued)}

\* token = await encodeStateEncrypted(events, config, password)
EncodeStateEncrypted ==
    /\ pc = "ready"
    /\ \E pw \in Passwords, salt \in (1..NumSalts) \ drawnSalts,
          iv \in (1..NumSalts) \ drawnIvs :
        /\ password' = pw
        /\ token' = encodeStateEncrypted(events, config, pw, salt, iv)
    /\ issued' = Append(issued, token')
    /\ pc' = "encoded"
    /\ UNCHANGED <<now, tz, events, config, attempt, result, first, err, round>>
    /\ UNCHANGED <<jsonString, hash, decodedString>>
    /\ UNCHANGED <<appVars, serverVars>>

\* a further call with the same events, config and password
EncodeStateEncryptedAgain ==
    /\ pc = "encoded"
    /\ token.kind = "enc"
    /\ Len(issued) < MaxIssued
    /\ \E salt \in (1..NumSalts) \ drawnSalts, iv \in (1..NumSalts) \ drawnIvs :
        token' = encodeStateEncrypted(events, config, password, salt, iv)
    /\ issued' = Append(issued, token')
    /\ UNCHANGED <<now, tz, events, config, password, attempt, result, first, err,
                   pc, round, jsonString, hash, decodedString>>
    /\ UNCHANGED <<appVars, serverVars>>

\* the hash of the URL holds something that was not issued by the encoder:
\* enc: followed by one, two or four segments, or by three that no key opens
EncryptedHashes ==
    {Token("enc", NoDoc, [NoBox EXCEPT !.parts = n]) : n \in 1..4}
    \cup {Token(k, NoDoc, NoBox) : k \in {"null", "empty"}}

ReceiveEncryptedHash ==
    /\ pc = "ready"
    /\ \E t \in EncryptedHashes : token' = t
    /\ pc' = "encoded"
    /\ UNCHANGED <<now, tz, events, config, password, attempt, result, first, err, round>>
    /\ UNCHANGED <<jsonString, hash, decodedString, issued>>
    /\ UNCHANGED <<appVars, serverVars>>

\* result = await decodeStateEncrypted(token, attempt)
DecodeStateEncrypted ==
    /\ pc = "encoded"
    /\ \E pw \in Passwords :
        /\ attempt' = pw
        /\ LET decoded == decodeStateEncrypted(token, pw)
           IN  IF decoded.threw
               THEN /\ pc' = "threw"
                    /\ err' = decoded.error
                    /\ UNCHANGED <<result, first, round>>
               ELSE /\ pc' = "decoded"
                    /\ err' = "none"
                    /\ result' = decoded.state
                    /\ first' = IF round = 0 THEN decoded.state ELSE first
                    /\ round' = round + 1
    /\ UNCHANGED <<now, tz, events, config, password, token>>
    /\ UNCHANGED <<jsonString, hash, decodedString, issued>>
    /\ UNCHANGED <<appVars, serverVars>>

NextEnc ==
    \/ EncodeStateEncrypted
    \/ EncodeState
    \/ ReceiveEncryptedHash
    \/ DecodeStateEncrypted

SpecEnc == InitEnc /\ [][NextEnc]_vars

\* repeated encrypted encodes of one state under one password
FreshSamples == {<<>>} \cup {<<e>> : e \in SampleEvents}

InitFresh ==
    /\ InitCommon
    /\ TextIdle
    /\ tz = 0
    /\ events \in FreshSamples
    /\ config \in Configs

NextFresh ==
    \/ EncodeStateEncrypted
    \/ EncodeStateEncryptedAgain
    \/ DecodeStateEncrypted

SpecFresh == InitFresh /\ [][NextFresh]_vars

----------------------------------------------------------------------------
(* Vocabulary of the properties *)

ThreeTypes == {Str("feeding"), Str("peeing"), Str("pooping")}

\* the instant an event's timestamp denotes (a Date; invalid when it has none)
Instant(e) == NewDate(Get(e, "timestamp"))
HasInstant(e) == Instant(e).k = "Date"

\* a - b in milliseconds, for instants less than a few days apart
DiffMs(a, b) == (a.d - b.d) * DAY_MS + (a.m - b.m)

\* encodeState keeps e in r (it is classified as recent at encode time)
ClassifiedRecent(e) == isRecentDate(eventDate(processEvent(e)))

FromSummary(d) == Get(d, "_fromSummary") = TrueV

\* d carries the value of every field of e that the short-name table lists
SameMappedFields(e, d) ==
    \A f \in (DOMAIN e \cap DOMAIN FIELD_MAPPING) \ {"timestamp"} :
        Get(d, f) = e[f]

\* d carries the value of every field of e
SameFields(e, d) == \A f \in DOMAIN e \ {"timestamp"} : Get(d, f) = e[f]

\* d's timestamp is e's, rounded down by no more than 15 minutes
FloorWithin15(e, d) ==
    LET t == Get(d, "timestamp")
    IN  /\ t.k = "Date"
        /\ LeqDM(t, Instant(e))
        /\ DiffMs(Instant(e), t) <= FIFTEEN_MINUTES_MS

RoundTripDone == pc = "decoded"

----------------------------------------------------------------------------
(* C1 *)

\* C1 (as stated): every event classified as recent at encode time comes back
\* from decodeState(encodeState(E)) with every field value equal to the
\* original, except timestamp, which is rounded down by at most 15 minutes.
C1_RecentFieldsExact ==
    (RoundTripDone /\ events # <<>>) =>
        \A i \in 1..Len(events) :
            ClassifiedRecent(events[i]) =>
                \E j \in 1..Len(result.data) :
                    /\ SameFields(events[i], result.data[j])
                    /\ FloorWithin15(events[i], result.data[j])

\* What does hold: the fields of the short-name table come back exactly and
\* the timestamp is rounded down by at most 15 minutes.
C1_MappedFieldsExact ==
    (RoundTripDone /\ events # <<>>) =>
        \A i \in 1..Len(events) :
            ClassifiedRecent(events[i]) =>
                \E j \in 1..Len(result.data) :
                    /\ SameMappedFields(events[i], result.data[j])
                    /\ FloorWithin15(events[i], result.data[j])

----------------------------------------------------------------------------
(* C10 *)

\* C10 (as stated): encodeState never raises, whatever the timestamps of the
\* events are (Date, ISO string, epoch number, absent or unparseable).
C10_EncodeNeverThrows == pc # "threw"

----------------------------------------------------------------------------
(* C2 *)

WrongShape(member) == member.shape \notin {"absent", "array"}

\* the token fails at some stage, or its JSON has the wrong shape
TokenMalformed(t) ==
    \/ t.kind \in {"null", "empty"} \cup StageFailures
    \/ /\ t.kind = "base64url"
       /\ \/ t.doc.top \in {"null", "number", "string", "boolean"}
          \/ /\ t.doc.top = "object"
             /\ WrongShape(t.doc.data) \/ WrongShape(t.doc.r) \/ WrongShape(t.doc.s)

\* C2 (as stated): for a null or empty token and for any token that fails at
\* any stage, a wrong shape of the top-level value or of the data, r or s
\* member included, decodeState returns {data: [], config: null}.
C2_MalformedGivesEmptyState ==
    (pc = "decoded" /\ TokenMalformed(token)) => result = EmptyState

\* decoding the token runs into an exception (which the catch block handles)
\* or finds a top-level value that is neither an object nor an array
TokenRejected(t) ==
    \/ t.kind \in {"null", "empty"} \cup StageFailures
    \/ /\ t.kind = "base64url"
       /\ \/ t.doc.top \in {"null", "number", "string", "boolean"}
          \/ /\ t.doc.top = "object"
             /\ \/ truthyShape(t.doc.data.shape) /\ t.doc.data.shape # "array"
                \/ /\ ~truthyShape(t.doc.data.shape)
                   /\ \/ truthyShape(t.doc.r.shape) /\ t.doc.r.shape # "array"
                      \/ t.doc.s.shape \in {"number", "true", "object"}

\* C2 (amended): decodeState returns {data: [], config: null} for a null or
\* empty token, for a token that fails at the base64, UTF-8 or JSON stage, for
\* a top-level null or primitive, and for an object whose data member is
\* truthy but no array or, data being absent or falsy, whose r member is
\* truthy but no array or whose s member is a number, true or an object.
C2_RejectedGivesEmptyState ==
    (pc = "decoded" /\ TokenRejected(token)) => result = EmptyState

\* a token whose data member is a string, beside a config, has been decoded
C2_Witness ==
    /\ pc = "decoded"
    /\ token.kind = "base64url"
    /\ token.doc.top = "object"
    /\ token.doc.data.shape = "string"
    /\ Truthy(token.doc.config)
    /\ result = EmptyState

----------------------------------------------------------------------------
(* C3 *)

\* the token at hand came out of encodeStateEncrypted
TokenIssued == \E i \in 1..Len(issued) : issued[i] = token

\* C3 (as stated): decoding an encrypted token with a password other than the
\* one it was encrypted with raises a decryption error; it never returns data.
C3_WrongPasswordRaises ==
    (pc \in {"decoded", "threw"} /\ TokenIssued /\ attempt # password) =>
        (pc = "threw" /\ err = "OperationError")

\* What does hold: two passwords with different UTF-8 encodings never open
\* each other's tokens.
C3_DifferentBytesRaise ==
    (pc \in {"decoded", "threw"} /\ TokenIssued
        /\ textEncode(attempt, 1) # textEncode(password, 1)) =>
        (pc = "threw" /\ err = "OperationError")

----------------------------------------------------------------------------
(* C4 *)

\* the same value; a Date and its ISO string denote the same instant
SameValue(a, b) ==
    IF a.k \in {"Date", "isostring"}
    THEN b.k \in {"Date", "isostring"} /\ a.d = b.d /\ a.m = b.m
    ELSE a = b

ExactEvent(e, d) ==
    /\ DOMAIN d = DOMAIN e
    /\ \A f \in DOMAIN e : SameValue(e[f], d[f])

\* C4: with the right password, decodeStateEncrypted(encodeStateEncrypted(E))
\* returns every event of E, in order, with every field (also those outside
\* the short-name table) and the exact instant: nothing is quantized or
\* folded into a summary.
C4_EncryptedRoundTripExact ==
    (pc = "decoded" /\ attempt = password) =>
        /\ Len(result.data) = Len(events)
        /\ \A i \in 1..Len(events) : ExactEvent(events[i], result.data[i])

\* an older event and an event off the 15-minute grid that carries a field
\* outside the table went through the password path
C4_Witness ==
    /\ pc = "decoded"
    /\ attempt = password
    /\ \E i \in 1..Len(events) : HasInstant(events[i]) /\ ~ClassifiedRecent(events[i])
    /\ \E i \in 1..Len(events) :
        /\ "notes" \in DOMAIN events[i]
        /\ HasInstant(events[i])
        /\ Instant(events[i]).m % FIFTEEN_MINUTES_MS # 0

----------------------------------------------------------------------------
(* C5 *)

WellFormedThree(evs) ==
    \A i \in 1..Len(evs) :
        Get(evs[i], "eventType") \in ThreeTypes /\ HasInstant(evs[i])

CountWhere(evs, P(_)) == Cardinality({i \in 1..Len(evs) : P(evs[i])})

NotClassifiedRecent(e) == ~ClassifiedRecent(e)

\* C5: for feeding, peeing and pooping events, decodeState(encodeState(E))
\* has exactly |E| events, one summary-derived event per older event of E.
C5_NoEventLost ==
    (RoundTripDone /\ WellFormedThree(events)) =>
        /\ Len(result.data) = Len(events)
        /\ CountWhere(result.data, FromSummary)
              = CountWhere(events, NotClassifiedRecent)

\* a recent and an older event went through one round trip
C5_Witness ==
    /\ RoundTripDone
    /\ WellFormedThree(events)
    /\ Len(events) = 2
    /\ CountWhere(events, NotClassifiedRecent) = 1
    /\ CountWhere(result.data, FromSummary) = 1

----------------------------------------------------------------------------
(* C6 *)

\* the decoded event d stands for the input event e
StandsFor(e, d) ==
    IF ClassifiedRecent(e)
    THEN ~FromSummary(d) /\ SameMappedFields(e, d) /\ FloorWithin15(e, d)
    ELSE FromSummary(d) /\ Get(d, "eventType") = Get(e, "eventType")

\* C6 (as stated): the i-th decoded event corresponds to the i-th input
\* event, in whatever order the caller inserted the events.
C6_OrderPreserved ==
    (RoundTripDone /\ events # <<>> /\ WellFormedThree(events)) =>
        /\ Len(result.data) = Len(events)
        /\ \A i \in 1..Len(events) : StandsFor(events[i], result.data[i])

AllRecent(evs) ==
    \A i \in 1..Len(evs) : HasInstant(evs[i]) /\ ClassifiedRecent(evs[i])

Ascending(evs) ==
    \A i, j \in 1..Len(evs) : i < j => LeqDM(Instant(evs[i]), Instant(evs[j]))

\* C6 (amended): when every event of E is classified as recent and E is in
\* ascending timestamp order, the i-th decoded event is the i-th input event.
C6_AscendingRecentKeepOrder ==
    (RoundTripDone /\ events # <<>> /\ AllRecent(events) /\ Ascending(events)) =>
        /\ Len(result.data) = Len(events)
        /\ \A i \in 1..Len(events) : StandsFor(events[i], result.data[i])

\* two recent events with different timestamps and ids, in ascending order
C6_Witness ==
    /\ RoundTripDone
    /\ Len(events) = 2
    /\ AllRecent(events)
    /\ LessDM(Instant(events[1]), Instant(events[2]))
    /\ Get(events[1], "id") # Get(events[2], "id")
    /\ Get(result.data[2], "id") = Get(events[2], "id")

----------------------------------------------------------------------------
(* C7 *)

MaxBatch == 9

\* n events like e, numbered 1..n
Repeat(e, n) == [i \in 1..n |-> With(e, "id", Num(i))]

BatchSamples ==
    { [eventType |-> Str(ty), timestamp |-> DateV(NowDay - 6, At(10, 0, 0))] :
        ty \in {"feeding", "peeing", "pooping"} }
    \cup { [eventType |-> Str("feeding"),
            timestamp |-> DateV(NowDay, At(9, 7, 3250))] }

InitStable ==
    /\ InitCommon
    /\ TextIdle
    /\ tz \in TzOffsets
    /\ config = Null
    /\ \E a \in BatchSamples, b \in BatchSamples, n \in 1..MaxBatch, k \in 0..1 :
           events = Repeat(a, n) \o Repeat(b, k)

SpecStable == InitStable /\ [][Next]_vars

\* the UTC calendar days on which the events of a list fall
DaysOf(evs) == {Instant(evs[i]).d : i \in 1..Len(evs)}

\* the number of events of one type on one UTC calendar day
CountOn(evs, day, ty) ==
    Cardinality({i \in 1..Len(evs) :
        Get(evs[i], "eventType") = ty /\ Instant(evs[i]).d = day})

\* C7 (as stated): decoding the re-encoded result of a first decode yields,
\* for every calendar day, the same feeds/pees/poops counts as the first
\* decode, for any number of events per day.
C7_RepeatedRoundTripStable ==
    (pc = "decoded" /\ round >= 2) =>
        \A day \in DaysOf(first.data) \cup DaysOf(result.data), ty \in ThreeTypes :
            CountOn(result.data, day, ty) = CountOn(first.data, day, ty)

----------------------------------------------------------------------------
(* C8 *)

MoreThanTwoDaysAgo(e) ==
    HasInstant(e) /\ LessDM(Norm(Instant(e).d + 2, Instant(e).m), now)

\* the number of events of one type on one local calendar day
CountOnLocal(evs, day, ty) ==
    Cardinality({i \in 1..Len(evs) :
        Get(evs[i], "eventType") = ty /\ LocalDay(Instant(evs[i])) = day})

LocalDaysOf(evs) == {LocalDay(Instant(evs[i])) : i \in 1..Len(evs)}

AtOrAfterLocalNoon(d) == (Instant(d).m + tz) % DAY_MS >= 12 * HOUR_MS

\* C8 (as stated): for events all dated more than 2 days in the past, in any
\* local time zone, the decoded list has no recent event and, per type and
\* calendar day, as many summary-derived events as E had, each on the day of
\* the original and at or after local noon.
C8_OlderEventsOnTheirDay ==
    (RoundTripDone /\ events # <<>> /\ WellFormedThree(events)
        /\ \A i \in 1..Len(events) : MoreThanTwoDaysAgo(events[i])) =>
        /\ \A j \in 1..Len(result.data) : FromSummary(result.data[j])
        /\ \A day \in LocalDaysOf(events) \cup LocalDaysOf(result.data),
              ty \in ThreeTypes :
                CountOnLocal(result.data, day, ty) = CountOnLocal(events, day, ty)
        /\ \A j \in 1..Len(result.data) : AtOrAfterLocalNoon(result.data[j])

\* What does hold where local time is UTC.
C8_HoldsInUTC == tz = 0 => C8_OlderEventsOnTheirDay

----------------------------------------------------------------------------
(* C9 *)

SameInstant(a, b) == HasInstant(a) /\ HasInstant(b) /\ Instant(a) = Instant(b)

\* the decoded list holds a stand-in for events[i] before one for events[j]
KeptInOrder(i, j) ==
    \E i2, j2 \in 1..Len(result.data) :
        /\ i2 < j2
        /\ StandsFor(events[i], result.data[i2])
        /\ StandsFor(events[j], result.data[j2])

----------------------------------------------------------------------------
(* C11 *)

ParsedObject == pc = "decoded" /\ token.kind = "base64url" /\ token.doc.top = "object"

HasKey(member) == member.shape # "absent"

\* the decoded events that stem from the data member, from r, from s
FromData(d) == Get(d, "id") = Get(LegacyEvent, "id")
FromRecent(d) == Get(d, "id") = Get(MinifiedEvent, "i")

\* C11 (as stated): the format depends only on which top-level keys are
\* present: with a data key the events are those of data and nothing of r or
\* s; without data, r and s (and no array at top level) the empty state is
\* returned.
C11_FormatByKeyPresence ==
    ParsedObject =>
        /\ HasKey(token.doc.data) =>
               \A i \in 1..Len(result.data) : FromData(result.data[i])
        /\ (~HasKey(token.doc.data) /\ ~HasKey(token.doc.r) /\ ~HasKey(token.doc.s))
               => result = EmptyState

\* C11 (amended): the format depends on the truthiness of the values: a
\* truthy data gives the legacy format (its events, nothing of r or s); else
\* a truthy r or s gives the compact format (the events of r and of the
\* summaries of s, nothing of data); else no events are returned.  The config
\* member is passed through in every format that does not fail.
C11_FormatByTruthiness ==
    ParsedObject =>
        LET doc == token.doc
            legacy == truthyShape(doc.data.shape)
            compact == ~legacy /\ (truthyShape(doc.r.shape) \/ truthyShape(doc.s.shape))
        IN  /\ legacy =>
                /\ \A i \in 1..Len(result.data) : FromData(result.data[i])
                /\ doc.data.shape = "array" =>
                       /\ Len(result.data) = Len(doc.data.items)
                       /\ result.config = IF Truthy(doc.config) THEN doc.config ELSE Null
            /\ compact =>
                /\ \A i \in 1..Len(result.data) :
                       FromRecent(result.data[i]) \/ FromSummary(result.data[i])
                /\ (doc.r.shape = "array" /\ doc.s.shape \notin {"number", "true", "object"}) =>
                       /\ CountWhere(result.data, FromRecent) = Len(doc.r.items)
                       /\ result.config = IF Truthy(doc.config) THEN doc.config ELSE Null
            /\ (~legacy /\ ~compact) =>
                /\ result.data = <<>>
                /\ result.config = IF Truthy(doc.config) THEN doc.config ELSE Null

\* a token with a null data key beside an r member was decoded as compact
C11_Witness ==
    /\ ParsedObject
    /\ token.doc.data.shape = "null"
    /\ token.doc.r.shape = "array"
    /\ Len(result.data) > 0
    /\ \A i \in 1..Len(result.data) : FromRecent(result.data[i])

----------------------------------------------------------------------------
(* C12 *)

\* the token carries one event stamped with WireInstant in some representation
WireToken == token.kind = "base64url" /\ token.doc \in WireDocs

\* C12 (as stated): an ISO-8601 string, an epoch-seconds integer and an
\* epoch-milliseconds integer of one instant all decode to that instant, in
\* the legacy data format, the compact r format and the bare array format.
C12_AllRepresentationsDecoded ==
    (pc = "decoded" /\ WireToken) =>
        /\ Len(result.data) = 1
        /\ Get(result.data[1], "timestamp") = DateV(WireInstant.d, WireInstant.m)

\* What does hold: a number is always read as epoch seconds, and a string is
\* parsed as a date only in the legacy and bare formats.
C12_NumbersAreSeconds ==
    (pc = "decoded" /\ WireToken) =>
        LET doc == token.doc
            sent == IF doc.top = "array" THEN doc.items[1]["timestamp"]
                    ELSE IF doc.data.shape = "array" THEN doc.data.items[1]["timestamp"]
                    ELSE doc.r.items[1]["ts"]
            got == Get(result.data[1], "timestamp")
        IN  /\ sent.k = "number" => got = unixToDate(sent)
            /\ (sent.k = "isostring" /\ doc.r.shape # "array") => got = DateV(sent.d, sent.m)
            /\ (sent.k = "isostring" /\ doc.r.shape = "array") => got = InvalidDate

----------------------------------------------------------------------------
(* C13 *)

\* the fields of e that the short-name table does not list
UnknownFields(e) == DOMAIN e \ DOMAIN FIELD_MAPPING

\* C13: a field of a recent event that the short-name table does not list is
\* written to the compact token under its own name with its value unchanged,
\* and decodeState returns it unchanged.
C13_UnknownFieldsPassThrough ==
    /\ (pc = "encoded" /\ token.kind = "base64url") =>
           \A i \in 1..Len(events) :
               ClassifiedRecent(events[i]) =>
                   \A f \in UnknownFields(events[i]) :
                       \E j \in 1..Len(token.doc.r.items) :
                           Get(token.doc.r.items[j], f) = jsonValue(events[i][f])
    /\ RoundTripDone =>
           \A i \in 1..Len(events) :
               ClassifiedRecent(events[i]) =>
                   \A f \in UnknownFields(events[i]) :
                       \E j \in 1..Len(result.data) :
                           Get(result.data[j], f) = events[i][f]

----------------------------------------------------------------------------
(* C14 *)

\* C14: the configuration travels with the URL:
\* decodeState(encodeState(E, cfg)).config equals cfg, and is null for a null
\* cfg.
C14_ConfigRoundTrip == RoundTripDone => result.config = config

----------------------------------------------------------------------------
(* The base64url layer as a state machine *)

JsonTexts == SeqsUpTo(CodePoints, MaxText) \ {<<>>}

InitText ==
    /\ InitCommon
    /\ tz = 0
    /\ events = <<>>
    /\ config = Null
    /\ jsonString \in JsonTexts
    /\ hash = <<>>
    /\ decodedString = <<>>

\* the last two lines of encodeState: the JSON text becomes the token
EncodeText ==
    /\ pc = "ready"
    /\ jsonString # <<>>
    /\ hash' = toUrlSafe(btoa(utf8Encode(jsonString)))
    /\ pc' = "encoded"
    /\ UNCHANGED <<now, tz, events, config, password, attempt, token, result, first,
                   err, round, jsonString, decodedString, issued>>
    /\ UNCHANGED <<appVars, serverVars>>

\* the first lines of decodeState's try block: the token becomes JSON text;
\* an exception ends in the catch block
DecodeText ==
    /\ pc = "encoded"
    /\ hash # <<>>
    /\ LET binary == atob(fromUrlSafe(hash))
           text == utf8Decode(binary.bytes)
       IN  IF binary.threw \/ text.threw
           THEN decodedString' = <<>> /\ err' = "caught"
           ELSE decodedString' = text.text /\ err' = "none"
    /\ pc' = "decoded"
    /\ UNCHANGED <<now, tz, events, config, password, attempt, token, result, first,
                   round, jsonString, hash, issued>>
    /\ UNCHANGED <<appVars, serverVars>>

NextText == EncodeText \/ DecodeText

SpecText == InitText /\ [][NextText]_vars

----------------------------------------------------------------------------
(* C15 *)

UrlSafeChars ==
    {Base64Alphabet[k] : k \in 1..62} \cup {"-", "_"}

\* C15: a token of encodeState consists of A-Z, a-z, 0-9, - and _ only (no +,
\* / or =), and restoring the padding on decode recovers the text exactly,
\* non-ASCII code points included, for every length of the text.
C15_UrlSafeAndExact ==
    /\ (pc \in {"encoded", "decoded"} /\ jsonString # <<>>) =>
           \A i \in 1..Len(hash) : hash[i] \in UrlSafeChars
    /\ (pc = "decoded" /\ jsonString # <<>>) =>
           err = "none" /\ decodedString = jsonString

\* a text with a code point outside ASCII whose token holds - or _ and had
\* its padding removed has gone through both directions
C15_Witness ==
    /\ pc = "decoded"
    /\ \E i \in 1..Len(jsonString) : Len(utf8Bytes(jsonString[i])) > 1
    /\ \E i \in 1..Len(hash) : hash[i] \in {"-", "_"}
    /\ Len(hash) % 4 # 0
    /\ decodedString = jsonString

----------------------------------------------------------------------------
(* C16 *)

\* C16: a token of encodeStateEncrypted is enc: followed by exactly three
\* non-empty base64url segments, salt, nonce and ciphertext in that order;
\* isUrlEncrypted is true for it and false for a token of encodeState.
C16_EncryptedTokenShape ==
    /\ (pc = "encoded" /\ TokenIssued) =>
        /\ token.kind = "enc"
        /\ token.box.parts = 3
        /\ [i \in 1..Len(token.box.segments) |-> token.box.segments[i].name]
               = <<"salt", "iv", "ciphertext">>
        /\ \A i \in 1..Len(token.box.segments) : token.box.segments[i].atLeast > 0
        /\ isUrlEncrypted(token)
    /\ (pc = "encoded" /\ token.kind = "base64url") => ~isUrlEncrypted(token)

\* an encrypted token has been issued whose salt and nonce segments have the
\* 22 and 16 characters of 16 and 12 bytes
C16_Witness ==
    /\ pc = "encoded"
    /\ TokenIssued
    /\ token.box.segments[1].atLeast = 22
    /\ token.box.segments[2].atLeast = 16
    /\ isUrlEncrypted(token)

----------------------------------------------------------------------------
(* C17 *)

\* the token is not empty and what follows enc: does not split into three
WrongSegmentCount ==
    /\ token.kind \notin {"null", "empty", "none"}
    /\ encryptedPart(token).parts # 3

\* C17: for a (non-empty) token that does not split on '.' into exactly three
\* parts, decodeStateEncrypted raises and returns nothing, and the error it
\* raises differs from the one of a failed authentication.
C17_WrongSegmentCountRaises ==
    /\ (pc \in {"decoded", "threw"} /\ WrongSegmentCount) =>
        /\ pc = "threw"
        /\ err = "Invalid encrypted data format"
    /\ (pc = "threw" /\ TokenIssued) => err = "OperationError"

\* a token of four segments was refused
C17_Witness ==
    /\ pc = "threw"
    /\ token.kind = "enc"
    /\ token.box.parts = 4
    /\ err = "Invalid encrypted data format"

----------------------------------------------------------------------------
(* C18 *)

\* C18: two calls of encodeStateEncrypted with the same events and password
\* give two different tokens, the salt and the nonce being drawn anew, and
\* each token decrypts under that password to the events.
C18_FreshTokens ==
    Len(issued) >= 2 =>
        /\ \A i, j \in 1..Len(issued) :
               i # j => /\ issued[i] # issued[j]
                        /\ issued[i].box.salt # issued[j].box.salt
                        /\ issued[i].box.iv # issued[j].box.iv
        /\ \A i \in 1..Len(issued) :
               LET decoded == decodeStateEncrypted(issued[i], password)
               IN  /\ ~decoded.threw
                   /\ Len(decoded.state.data) = Len(events)
                   /\ \A k \in 1..Len(events) :
                          ExactEvent(events[k], decoded.state.data[k])

\* a second token for a non-empty event list was issued and opened
C18_Witness ==
    /\ Len(issued) = 2
    /\ events # <<>>
    /\ pc = "decoded"
    /\ attempt = password
    /\ token = issued[2]
    /\ Len(result.data) = Len(events)

----------------------------------------------------------------------------
(* C19 *)

\* C19: encodeState([]) and encodeState(null) give a token, with empty r and
\* s, that decodeState maps to the empty state {data: [], config: null}.
C19_EmptyListRoundTrip ==
    (events = <<>> /\ config = Null) =>
        /\ pc # "threw"
        /\ pc = "encoded" =>
               /\ token.doc.r = Member("array", <<>>)
               /\ token.doc.s = Member("array", <<>>)
        /\ RoundTripDone => result = EmptyState

\* the token of an empty list was decoded
C19_Witness ==
    /\ events = <<>>
    /\ config = Null
    /\ RoundTripDone
    /\ token.kind = "base64url"
    /\ token.doc.r = Member("array", <<>>)
    /\ result = EmptyState

----------------------------------------------------------------------------
(* C20 *)

\* the local calendar day of e's timestamp is today or yesterday
TodayOrYesterday(e) ==
    LocalDay(Instant(e)) \in {LocalDay(now) - 1, LocalDay(now)}

\* the token keeps e in r; the token has a summary of e's day in s
KeptInRecent(e) ==
    \E j \in 1..Len(token.doc.r.items) : Get(token.doc.r.items[j], "i") = Get(e, "id")
FoldedIntoSummary(e) ==
    \E k \in 1..Len(token.doc.s.items) :
        token.doc.s.items[k].date = getDateKey(eventDate(processEvent(e))).key

\* C20 (as stated): encodeState keeps an event in r if and only if the local
\* calendar day of its timestamp is today or yesterday at the moment of
\* encoding; an event of any other day is not in r but in a summary of s.
C20_RecentIffTodayOrYesterday ==
    (pc = "encoded" /\ token.kind = "base64url") =>
        \A i \in 1..Len(events) :
            HasInstant(events[i]) =>
                /\ KeptInRecent(events[i]) <=> TodayOrYesterday(events[i])
                /\ ~TodayOrYesterday(events[i]) => FoldedIntoSummary(events[i])

\* What does hold: an event is kept in r if and only if its local calendar
\* day is yesterday or any later day, a day in the future included; an
\* event of an earlier day is not in r but in a summary of s.
C20_RecentIffYesterdayOrLater ==
    (pc = "encoded" /\ token.kind = "base64url") =>
        \A i \in 1..Len(events) :
            HasInstant(events[i]) =>
                LET e == events[i]
                    late == LocalDay(Instant(e)) >= LocalDay(now) - 1
                IN  /\ KeptInRecent(e) <=> late
                    /\ ~late => FoldedIntoSummary(e)

----------------------------------------------------------------------------
(* C21 *)

\* e is folded into a summary; the date key it is counted under
IsOlder(e) == HasInstant(e) /\ ~ClassifiedRecent(e)
DateKeyOf(e) == getDateKey(eventDate(processEvent(e))).key

\* how many older events of one type the encoder was given for one date
OlderOn(dateKey, ty) ==
    Cardinality({i \in 1..Len(events) :
        /\ IsOlder(events[i])
        /\ DateKeyOf(events[i]) = dateKey
        /\ Get(events[i], "eventType") = Str(ty)})

OtherType(e) == Get(e, "eventType") \notin ThreeTypes

\* C21: s holds exactly one entry per date (YYYY-MM-DD) among the older
\* events, whose feeds, pees and poops are the numbers of older feeding,
\* peeing and pooping events of that date; an older event of another type
\* raises no counter and does not come back from the decode.
C21_SummariesCountPerDate ==
    /\ (pc = "encoded" /\ token.kind = "base64url") =>
        LET s == token.doc.s.items
        IN  /\ {s[k].date : k \in 1..Len(s)}
                   = {DateKeyOf(events[i]) : i \in {j \in 1..Len(events) : IsOlder(events[j])}}
            /\ \A k, l \in 1..Len(s) : s[k].date = s[l].date => k = l
            /\ \A k \in 1..Len(s) :
                   /\ s[k].feeds = OlderOn(s[k].date, "feeding")
                   /\ s[k].pees = OlderOn(s[k].date, "peeing")
                   /\ s[k].poops = OlderOn(s[k].date, "pooping")
    /\ RoundTripDone =>
        Cardinality({j \in 1..Len(result.data) : OtherType(result.data[j])})
            = Cardinality({i \in 1..Len(events) :
                  OtherType(events[i]) /\ ~IsOlder(events[i])})

\* an older event of another type and an older feeding of the same date went
\* through a round trip that returned the one feeding
C21_Witness ==
    /\ RoundTripDone
    /\ Len(events) = 2
    /\ IsOlder(events[1]) /\ IsOlder(events[2])
    /\ OtherType(events[1])
    /\ Get(events[2], "eventType") = Str("feeding")
    /\ DateKeyOf(events[1]) = DateKeyOf(events[2])
    /\ Len(result.data) = 1
    /\ FromSummary(result.data[1])

----------------------------------------------------------------------------
(* C22 *)

\* the token is a compact token with one recent event and a stored timestamp
StoredTimestampToken == token.kind = "base64url" /\ token.doc \in StoredTimestampDocs

\* positive and below 2^31 seconds
Plausible(ts) ==
    /\ ts.k = "number"
    /\ LessDM([d |-> 0, m |-> 0], ts)
    /\ LessDM(ts, [d |-> 24, m |-> 73883648])

\* C22 (as stated): a stored recent-event timestamp becomes an instant only
\* if it is a plausible Unix-seconds value; every other stored value (zero,
\* negative, too large, not a number, missing) falls back to the current
\* time, so that no decoded recent event carries an invalid date.
C22_ImplausibleFallsBackToNow ==
    (pc = "decoded" /\ StoredTimestampToken) =>
        LET ts == Get(token.doc.r.items[1], "ts")
            got == Get(result.data[1], "timestamp")
        IN  /\ got.k = "Date"
            /\ got = IF Plausible(ts) THEN unixToDate(ts) ELSE DateV(now.d, now.m)

\* What does hold: only a falsy stored value (missing, null, zero) falls
\* back to the current time; every other number is multiplied by 1000,
\* whatever its sign or size, and text gives an Invalid Date.
C22_FalsyFallsBackToNow ==
    (pc = "decoded" /\ StoredTimestampToken) =>
        LET ts == Get(token.doc.r.items[1], "ts")
            got == Get(result.data[1], "timestamp")
        IN  got = IF ~Truthy(ts) THEN DateV(now.d, now.m) ELSE unixToDate(ts)

----------------------------------------------------------------------------
(* C23 *)

\* a.timestamp <= b.timestamp; false as soon as one is an Invalid Date
TimestampLeq(a, b) ==
    LET tsA == Get(a, "timestamp")
        tsB == Get(b, "timestamp")
    IN  tsA.k = "Date" /\ tsB.k = "Date" /\ LeqDM(tsA, tsB)

SortedAscending(evs) ==
    \A i, j \in 1..Len(evs) : i < j => TimestampLeq(evs[i], evs[j])

\* C23 (as stated): for every compact token the list decodeState returns is
\* in ascending timestamp order: events[i].timestamp <= events[j].timestamp
\* for all i < j.
C23_DecodedListSorted ==
    (pc = "decoded" /\ token.kind = "base64url"
        /\ detectFormat(token.doc) = "compact") => SortedAscending(result.data)

\* What does hold: the list is in ascending order when every decoded
\* timestamp is a valid date.
C23_SortedWhenDatesValid ==
    (pc = "decoded" /\ token.kind = "base64url"
        /\ detectFormat(token.doc) = "compact"
        /\ \A i \in 1..Len(result.data) : Get(result.data[i], "timestamp").k = "Date")
    => SortedAscending(result.data)

----------------------------------------------------------------------------
(* C24 *)

\* the token is compact with well-formed r and s arrays, and was decoded
CompactDecoded ==
    /\ pc = "decoded"
    /\ token.kind = "base64url"
    /\ detectFormat(token.doc) = "compact"
    /\ token.doc.r.shape = "array"
    /\ token.doc.s.shape = "array"

\* the events one decode synthesizes from the token's summaries
Synthesized == expandSummaries(token.doc.s.items, 1)

\* the recent events of the token as decodeState expands them
Recorded == [i \in 1..Len(token.doc.r.items) |-> expandRecent(token.doc.r.items[i])]

MarkersRight ==
    /\ \A i \in 1..Len(Synthesized) : FromSummary(Synthesized[i])
    /\ \A i \in 1..Len(Recorded) : ~FromSummary(Recorded[i])
    /\ CountWhere(result.data, FromSummary) = Len(Synthesized)
    /\ Len(result.data) = Len(Synthesized) + Len(Recorded)

\* C24 (as stated): the summary-derived events of one decode have pairwise
\* distinct timestamps, each carries the summary-derived marker and no
\* recorded event does.
C24_SynthesizedDistinct ==
    CompactDecoded =>
        /\ \A i, j \in 1..Len(Synthesized) :
              i # j => Get(Synthesized[i], "timestamp") # Get(Synthesized[j], "timestamp")
        /\ MarkersRight

\* C24 (amended): the summary-derived events of one type from one day summary
\* have pairwise distinct timestamps (events of different types may share
\* one); each carries the summary-derived marker and no recorded event does.
C24_SynthesizedDistinctPerType ==
    CompactDecoded =>
        /\ \A i, j \in 1..Len(Synthesized) :
              (i # j /\ Get(Synthesized[i], "eventType") = Get(Synthesized[j], "eventType"))
              => Get(Synthesized[i], "timestamp") # Get(Synthesized[j], "timestamp")
        /\ MarkersRight

\* a decode synthesized two events of every type next to a recorded event
C24_Witness ==
    /\ CompactDecoded
    /\ Len(Recorded) = 1
    /\ \A ty \in ThreeTypes :
          Cardinality({i \in 1..Len(Synthesized) :
                          Get(Synthesized[i], "eventType") = ty}) = 2
    /\ CountWhere(result.data, FromSummary) = 6

----------------------------------------------------------------------------
(* src/src/App.jsx: the App component *)

EmptyHash == Token("empty", NoDoc, NoBox)

\* the map callback of initialize, handleDecrypt and handleHashChange
deserializeEvent(event) ==
    LET ts == Get(event, "timestamp")
    IN  With(event, "timestamp",
             IF Truthy(ts) THEN NewDate(ts) ELSE DateV(now.d, now.m))

deserializeEvents(data) == [i \in 1..Len(data) |-> deserializeEvent(data[i])]

\* the map callback of the URL-sync effect and of handleDecrypt
serializeEvent(event) ==
    LET ts == Get(event, "timestamp")
    IN  IF ts.k = "Date" THEN With(event, "timestamp", IsoStr(ts.d, ts.m)) ELSE event

serializeEvents(evs) == [i \in 1..Len(evs) |-> serializeEvent(evs[i])]

\* toISOString raises a RangeError on an Invalid Date
serializeThrows(evs) ==
    \E i \in 1..Len(evs) : Get(evs[i], "timestamp").k = "InvalidDate"

\* a browser that dispatches hashchange on every assignment to location.hash
fragmentAlwaysChanges(old, new) == TRUE

\* assigning location.hash dispatches hashchange when the fragment changes
fragmentChanges(old, new) == old # new

\* updateUrlState(serializedEvents, null) called with the events of the state:
\* [threw, hash, fired]
updateUrlState(evs, current) ==
    LET encoded == encodeState(Given(serializeEvents(evs)), Null)
    IN  IF serializeThrows(evs) \/ encoded.threw
        THEN [threw |-> TRUE, hash |-> current, fired |-> 0]
        ELSE [threw |-> FALSE, hash |-> encoded.token,
              fired |-> IF fragmentChanges(current, encoded.token) THEN 1 ELSE 0]

\* the URL-sync effect: skipped while the password dialog is shown
syncEffect(evs, dialogShown, current) ==
    IF dialogShown THEN [threw |-> FALSE, hash |-> current, fired |-> 0]
    ELSE updateUrlState(evs, current)

\* setShowPasswordDialog(true) re-runs the effect when the value changed
dialogOpens == ~showPasswordDialog

MaxQueued == 1
AppPasswords == {<<"a">>, <<"b">>}

FormEvents ==
    { [eventType |-> Str("feeding"), type |-> Str("bottle"), amount |-> Num(120),
       timestamp |-> DateV(NowDay, At(9, 7, 3250))],
      [eventType |-> Str("pooping"), consistency |-> Str("soft"),
       timestamp |-> IsoStr(NowDay - 3, At(22, 10, 0))] }

\* an event as handleEventSubmit stores it
newEvent(eventData) ==
    LET ts == Get(eventData, "timestamp")
    IN  With(With(eventData, "id", NumDM(now.d, now.m)), "timestamp",
             IF IsDate(ts) THEN ts ELSE NewDate(ts))

SharedEvents ==
    << [eventType |-> Str("feeding"), id |-> Num(1), type |-> Str("bottle"),
        amount |-> Num(90), timestamp |-> IsoStr(NowDay, At(8, 50, 0))] >>

SealedHash == encodeStateEncrypted(SharedEvents, Null, <<"a">>, 1, 1)

\* what the URL hash may hold when the page loads or the user navigates:
\* nothing, a plain token of encodeState, a summary of five poops on one day,
\* a recent event stored with text for ts, an encrypted token, one whose iv
\* segment was altered, and one cut to two segments
PageHashes ==
    {EmptyHash,
     encodeState(Given(SharedEvents), Null).token,
     PlainToken(Doc("object", Absent, Member("array", <<>>),
                    Member("array", <<[date |-> NowDay - 6, feeds |-> 0, pees |-> 0,
                                       poops |-> 5]>>), Undefined, <<>>)),
     PlainToken(Doc("object", Absent,
                    Member("array", <<With(MinifiedEvent, "ts", Str("abc"))>>),
                    Member("array", <<>>), Undefined, <<>>)),
     SealedHash,
     [SealedHash EXCEPT !.box.iv = 2],
     [SealedHash EXCEPT !.box.parts = 2]}

\* no codec call of the state machines above is in progress
CodecIdle ==
    /\ now = Now
    /\ password = <<>>
    /\ attempt = <<>>
    /\ token = NoToken
    /\ result = EmptyState
    /\ first = EmptyState
    /\ err = "none"
    /\ pc = "ready"
    /\ round = 0
    /\ issued = <<>>
    /\ TextIdle

InitApp ==
    /\ CodecIdle
    /\ ServerIdle
    /\ tz = 0
    /\ events = <<>>
    /\ config = Null
    /\ appPc = "unmounted"
    /\ locationHash \in PageHashes
    /\ loading = TRUE
    /\ error = Null
    /\ showPasswordDialog = FALSE
    /\ decryptPassword = <<>>
    /\ decryptError = ""
    /\ encryptedHash = EmptyHash
    /\ effectPending = FALSE
    /\ hashchanges = 0
    /\ decrypting = NoCall

codecVars == <<now, tz, password, attempt, token, result, first, err, pc, round,
               jsonString, hash, decodedString, issued>>

\* the first commit: the three effects run in order. initialize() runs up to
\* its await, the URL-sync effect runs with events = [] and no dialog, and the
\* hashchange listener is registered.
Mount ==
    /\ appPc = "unmounted"
    /\ LET synced == syncEffect(events, showPasswordDialog, locationHash)
       IN  /\ locationHash' = synced.hash
           /\ hashchanges' = hashchanges + synced.fired
    /\ appPc' = "awaitingConfig"
    /\ UNCHANGED <<events, config, loading, error, showPasswordDialog, decryptPassword,
                   decryptError, encryptedHash, effectPending, decrypting>>
    /\ UNCHANGED <<codecVars, serverVars>>

\* initialize() after `await loadConfig()`: the promise resolved or rejected
Initialize ==
    /\ appPc = "awaitingConfig"
    /\ appPc' = "done"
    /\ loading' = FALSE
    /\ \E resolved \in BOOLEAN :
        IF ~resolved
        THEN /\ error' = Str("Failed to load config")
             /\ UNCHANGED <<events, config, showPasswordDialog, encryptedHash,
                            effectPending>>
        ELSE /\ config' = Obj("setting: on")
             /\ error' = error
             /\ IF isUrlEncrypted(locationHash)
                THEN /\ encryptedHash' = locationHash
                     /\ showPasswordDialog' = TRUE
                     /\ effectPending' = (effectPending \/ dialogOpens)
                     /\ events' = events
                ELSE /\ events' = deserializeEvents(decodeState(locationHash).data)
                     /\ effectPending' = TRUE
                     /\ UNCHANGED <<showPasswordDialog, encryptedHash>>
    /\ UNCHANGED <<locationHash, decryptPassword, decryptError, hashchanges, decrypting>>
    /\ UNCHANGED <<codecVars, serverVars>>

\* the URL-sync effect runs after a render in which events or
\* showPasswordDialog changed; an exception in it takes the component down
SyncEffect ==
    /\ appPc \in {"awaitingConfig", "done"}
    /\ effectPending
    /\ effectPending' = FALSE
    /\ LET synced == syncEffect(events, showPasswordDialog, locationHash)
       IN  IF synced.threw
           THEN /\ appPc' = "crashed"
                /\ UNCHANGED <<locationHash, hashchanges>>
           ELSE /\ appPc' = appPc
                /\ locationHash' = synced.hash
                /\ hashchanges' = hashchanges + synced.fired
    /\ UNCHANGED <<events, config, loading, error, showPasswordDialog, decryptPassword,
                   decryptError, encryptedHash, decrypting>>
    /\ UNCHANGED <<codecVars, serverVars>>

\* the hashchange listener handles one queued event
HandleHashChange ==
    /\ appPc \in {"awaitingConfig", "done"}
    /\ hashchanges > 0
    /\ hashchanges' = hashchanges - 1
    /\ IF isUrlEncrypted(locationHash)
       THEN /\ encryptedHash' = locationHash
            /\ showPasswordDialog' = TRUE
            /\ effectPending' = (effectPending \/ dialogOpens)
            /\ events' = events
       ELSE /\ events' = deserializeEvents(decodeState(locationHash).data)
            /\ effectPending' = TRUE
            /\ UNCHANGED <<showPasswordDialog, encryptedHash>>
    /\ UNCHANGED <<appPc, locationHash, config, loading, error, decryptPassword,
                   decryptError, decrypting>>
    /\ UNCHANGED <<codecVars, serverVars>>

\* the page is rendered: not loading, no error
Rendered == appPc = "done" /\ ~loading /\ error = Null

HandleEventSubmit ==
    /\ Rendered
    /\ Len(events) < MaxEvents
    /\ \E eventData \in FormEvents : events' = Append(events, newEvent(eventData))
    /\ effectPending' = TRUE
    /\ UNCHANGED <<appPc, locationHash, config, loading, error, showPasswordDialog,
                   decryptPassword, decryptError, encryptedHash, hashchanges, decrypting>>
    /\ UNCHANGED <<codecVars, serverVars>>

\* back/forward navigation, or a pasted link, to another fragment of the page
Navigate ==
    /\ Rendered
    /\ hashchanges < MaxQueued
    /\ \E h \in PageHashes :
        /\ fragmentChanges(locationHash, h)
        /\ locationHash' = h
    /\ hashchanges' = hashchanges + 1
    /\ UNCHANGED <<appPc, events, config, loading, error, showPasswordDialog,
                   decryptPassword, decryptError, encryptedHash, effectPending,
                   decrypting>>
    /\ UNCHANGED <<codecVars, serverVars>>

\* the password field's onChange
SetDecryptPassword ==
    /\ Rendered
    /\ showPasswordDialog
    /\ \E pw \in AppPasswords \cup {<<>>} :
        /\ pw # decryptPassword
        /\ decryptPassword' = pw
    /\ UNCHANGED <<appPc, locationHash, events, config, loading, error,
                   showPasswordDialog, decryptError, encryptedHash, effectPending,
                   hashchanges, decrypting>>
    /\ UNCHANGED <<codecVars, serverVars>>

\* handleDecrypt up to its await
HandleDecrypt ==
    /\ Rendered
    /\ showPasswordDialog
    /\ ~decrypting.pending
    /\ IF decryptPassword = <<>>
       THEN /\ decryptError' = "Please enter the password"
            /\ decrypting' = decrypting
       ELSE /\ decryptError' = ""
            /\ decrypting' = [pending |-> TRUE, hash |-> encryptedHash,
                              pw |-> decryptPassword]
    /\ UNCHANGED <<appPc, locationHash, events, config, loading, error,
                   showPasswordDialog, decryptPassword, encryptedHash, effectPending,
                   hashchanges>>
    /\ UNCHANGED <<codecVars, serverVars>>

\* a handler that closes the dialog whatever the outcome
afterDecryptAlwaysCloses(outcome, st) ==
    LET deserializedEvents == deserializeEvents(outcome.state.data)
        updated == updateUrlState(deserializedEvents, st.locationHash)
    IN  [events |-> IF outcome.threw THEN st.events ELSE deserializedEvents,
         showPasswordDialog |-> FALSE,
         decryptPassword |-> <<>>,
         encryptedHash |-> EmptyHash,
         decryptError |-> IF outcome.threw \/ updated.threw
                          THEN "Incorrect password. Please try again." ELSE st.decryptError,
         locationHash |-> IF outcome.threw THEN st.locationHash ELSE updated.hash,
         fired |-> IF outcome.threw THEN 0 ELSE updated.fired,
         changed |-> TRUE]

\* handleDecrypt after `await decodeStateEncrypted(...)`: the try block's
\* remainder, or the catch block. st is the component's state; `changed`
\* says whether events or showPasswordDialog were set.
afterDecrypt(outcome, st) ==
    IF outcome.threw
    THEN [events |-> st.events,
          showPasswordDialog |-> st.showPasswordDialog,
          decryptPassword |-> st.decryptPassword,
          encryptedHash |-> st.encryptedHash,
          decryptError |-> "Incorrect password. Please try again.",
          locationHash |-> st.locationHash,
          fired |-> 0,
          changed |-> FALSE]
    ELSE LET deserializedEvents == deserializeEvents(outcome.state.data)
             updated == updateUrlState(deserializedEvents, st.locationHash)
         IN  [events |-> deserializedEvents,
              showPasswordDialog |-> FALSE,
              decryptPassword |-> <<>>,
              encryptedHash |-> EmptyHash,
              decryptError |-> IF updated.threw
                               THEN "Incorrect password. Please try again."
                               ELSE st.decryptError,
              locationHash |-> updated.hash,
              fired |-> updated.fired,
              changed |-> TRUE]

\* the awaited decodeStateEncrypted call settles
DecryptSettles ==
    /\ appPc = "done"
    /\ decrypting.pending
    /\ decrypting' = NoCall
    /\ \E outcome \in {decodeStateEncrypted(decrypting.hash, decrypting.pw)},
          st \in {[events |-> events, showPasswordDialog |-> showPasswordDialog,
                   decryptPassword |-> decryptPassword, encryptedHash |-> encryptedHash,
                   decryptError |-> decryptError, locationHash |-> locationHash]} :
       \E after \in {afterDecrypt(outcome, st)} :
           /\ events' = after.events
           /\ showPasswordDialog' = after.showPasswordDialog
           /\ decryptPassword' = after.decryptPassword
           /\ encryptedHash' = after.encryptedHash
           /\ decryptError' = after.decryptError
           /\ locationHash' = after.locationHash
           /\ hashchanges' = hashchanges + after.fired
           /\ effectPending' = (effectPending \/ after.changed)
    /\ UNCHANGED <<appPc, config, loading, error>>
    /\ UNCHANGED <<codecVars, serverVars>>

\* handleSkipDecrypt: history.replaceState dispatches no hashchange
HandleSkipDecrypt ==
    /\ Rendered
    /\ showPasswordDialog
    /\ showPasswordDialog' = FALSE
    /\ decryptPassword' = <<>>
    /\ encryptedHash' = EmptyHash
    /\ events' = <<>>
    /\ locationHash' = EmptyHash
    /\ effectPending' = TRUE
    /\ UNCHANGED <<appPc, config, loading, error, decryptError, hashchanges, decrypting>>
    /\ UNCHANGED <<codecVars, serverVars>>

NextApp ==
    \/ Mount
    \/ Initialize
    \/ SyncEffect
    \/ HandleHashChange
    \/ HandleEventSubmit
    \/ Navigate
    \/ SetDecryptPassword
    \/ HandleDecrypt
    \/ DecryptSettles
    \/ HandleSkipDecrypt

SpecApp == InitApp /\ [][NextApp]_vars

----------------------------------------------------------------------------
(* C25 *)

\* the awaited decodeStateEncrypted call is about to reject
DecryptFails ==
    decrypting.pending /\ decodeStateEncrypted(decrypting.hash, decrypting.pw).threw

\* C25: when the decryption that handleDecrypt awaits fails, the step that
\* handles the failure shows an error and leaves the password dialog, the
\* stored encrypted hash, the URL hash and the events as they were; events
\* are replaced and the dialog closed only by a successful decrypt.
C25_FailedDecryptKeepsState ==
    [][(DecryptFails /\ ~decrypting'.pending) =>
          /\ decryptError' = "Incorrect password. Please try again."
          /\ showPasswordDialog' = showPasswordDialog
          /\ encryptedHash' = encryptedHash
          /\ locationHash' = locationHash
          /\ events' = events]_vars

\* a wrong password was tried on an encrypted link: the dialog is still open
\* on the same hash, with the error shown
C25_Witness ==
    /\ showPasswordDialog
    /\ encryptedHash = SealedHash
    /\ decryptPassword = <<"b">>
    /\ ~decrypting.pending
    /\ decryptError = "Incorrect password. Please try again."

----------------------------------------------------------------------------
(* C26 *)

\* the state initialize() sets from the hash h it reads
LoadedFrom(h) ==
    IF isUrlEncrypted(h)
    THEN showPasswordDialog' /\ encryptedHash' = h
    ELSE events' = deserializeEvents(decodeState(h).data)

\* C26 (as stated): until initialize() has read the URL hash no step writes
\* it, and when loading finishes the events are those of the token in the
\* hash (or the password dialog is shown for an enc: token).
C26_SharedUrlLoads ==
    [][/\ appPc \in {"unmounted", "awaitingConfig"} => locationHash' = locationHash
       /\ (appPc = "awaitingConfig" /\ appPc' = "done" /\ error' = Null)
             => LoadedFrom(locationHash)]_vars

\* What does hold: initialize() loads whatever the hash holds when it reads it.
C26_LoadsCurrentHash ==
    [][(appPc = "awaitingConfig" /\ appPc' = "done" /\ error' = Null)
          => LoadedFrom(locationHash)]_vars

----------------------------------------------------------------------------
(* C27 *)

\* the URL hash is the application's own encoding of the events it holds
HashIsOwnEncoding ==
    /\ ~serializeThrows(events)
    /\ locationHash = encodeState(Given(serializeEvents(events)), Null).token

\* C27 (as stated): when the hashchange that follows the application's own
\* write of the URL is handled, the events in state are left as they were.
C27_UrlWriteKeepsEvents ==
    [][(HashIsOwnEncoding /\ hashchanges' < hashchanges) => events' = events]_vars

\* What does hold: the URL-sync effect itself never touches the events.
C27_EffectKeepsEvents ==
    [][(effectPending /\ ~effectPending') => events' = events]_vars

----------------------------------------------------------------------------
(* The URL-sync loop of App on its own *)

\* event lists as handleJsonUpdate stores them: every timestamp a Date, which
\* is an Invalid Date when the edited text does not parse
LoopSamples ==
    BatchSamples
    \cup {[eventType |-> Str("pooping"), timestamp |-> DateV(NowDay - 2, At(10, 0, 0))],
          [eventType |-> Str("feeding"), timestamp |-> InvalidDate]}

\* the rendered application right after handleJsonUpdate(updatedEvents)
InitLoop ==
    /\ CodecIdle
    /\ ServerIdle
    /\ tz \in TzOffsets
    /\ config = Obj("setting: on")
    /\ \E a \in LoopSamples, b \in LoopSamples, n \in 1..MaxBatch, k \in 0..1 :
           events = Repeat(a, n) \o Repeat(b, k)
    /\ appPc = "done"
    /\ locationHash = encodeState(Given(<<>>), Null).token
    /\ loading = FALSE
    /\ error = Null
    /\ showPasswordDialog = FALSE
    /\ decryptPassword = <<>>
    /\ decryptError = ""
    /\ encryptedHash = EmptyHash
    /\ effectPending = TRUE
    /\ hashchanges = 0
    /\ decrypting = NoCall

NextLoop == SyncEffect \/ HandleHashChange

\* the steps of SyncEffect and of HandleHashChange, told by their guard and by
\* the one variable each always changes
EffectRuns ==
    appPc \in {"awaitingConfig", "done"} /\ effectPending /\ effectPending' = FALSE
HashChangeHandled ==
    appPc \in {"awaitingConfig", "done"} /\ hashchanges > 0
        /\ hashchanges' = hashchanges - 1

\* React runs a due effect, and the browser dispatches a queued hashchange
SpecLoop ==
    InitLoop /\ [][NextLoop]_vars
        /\ WF_effectPending(EffectRuns) /\ WF_hashchanges(HashChangeHandled)

----------------------------------------------------------------------------
(* C28 *)

\* nothing is due or queued, and the hash is the encoding of the events
Settled ==
    /\ appPc = "done"
    /\ ~effectPending
    /\ hashchanges = 0
    /\ HashIsOwnEncoding

Stopped == appPc = "crashed" /\ serializeThrows(events)

----------------------------------------------------------------------------
(* src/server.js: POST /api/events/sync and DELETE /api/events/:id *)

MaxPosted == 2
MaxRowid == 5

\* { id, eventType, timestamp, ...rest } = event
restOf(event) == [f \in DOMAIN event \ {"id", "eventType", "timestamp"} |-> event[f]]

\* the loop body of syncAll for one event: the row it inserts, or the
\* exception of toISOString (Invalid Date) or of the NOT NULL constraint
insertRow(event, rowid) ==
    LET date == NewDate(Get(event, "timestamp"))
        eventType == Get(event, "eventType")
    IN  IF date.k # "Date" THEN [threw |-> TRUE, row |-> <<>>]
        ELSE IF eventType.k \in {"undefined", "null"} THEN [threw |-> TRUE, row |-> <<>>]
        ELSE [threw |-> FALSE,
              row |-> <<[id |-> rowid, event_type |-> eventType,
                         timestamp |-> IsoStr(date.d, date.m), data |-> restOf(event)]>>]

\* deleteStmt.run() and the insert loop, run to the end or to the first
\* exception: [threw, rows, rowid]
RECURSIVE insertFrom(_, _, _, _)
insertFrom(posted, i, rows, rowid) ==
    IF i > Len(posted) THEN [threw |-> FALSE, rows |-> rows, rowid |-> rowid]
    ELSE LET inserted == insertRow(posted[i], rowid + 1)
         IN  IF inserted.threw THEN [threw |-> TRUE, rows |-> rows, rowid |-> rowid]
             ELSE insertFrom(posted, i + 1, rows \o inserted.row, rowid + 1)

\* the statements run outside a transaction: what was done before the
\* exception stays done
syncAllWithoutTransaction(posted, rows, rowid) ==
    insertFrom(posted, 1, <<>>, rowid)

\* syncAll = db.transaction(...): an exception rolls the table back
syncAll(posted, rows, rowid) ==
    LET done == insertFrom(posted, 1, <<>>, rowid)
    IN  IF done.threw THEN [threw |-> TRUE, rows |-> rows, rowid |-> rowid] ELSE done

\* events of a request body (JSON: timestamps are text, numbers or null)
PostedEvents ==
    { [id |-> Num(1), eventType |-> Str("feeding"), amount |-> Num(120),
       timestamp |-> IsoStr(NowDay, At(9, 7, 3250))],
      [eventType |-> Str("pooping"), timestamp |-> NumDM(NowDay - 1, At(22, 40, 0))],
      [id |-> Num(9), eventType |-> Str("feeding"),
       timestamp |-> Str("yesterday evening")],
      [id |-> Num(8), timestamp |-> IsoStr(NowDay, At(8, 50, 0))] }

InitServer ==
    /\ CodecIdle
    /\ tz = 0
    /\ events = <<>>
    /\ config = Null
    /\ AppIdle

\* app.post('/api/events/sync'): the body is not an array, or is the array
\* request.list
SyncEvents ==
    /\ \E body \in {NotGiven} \cup {Given(l) : l \in SeqsUpTo(PostedEvents, MaxPosted)} :
        /\ seq + Len(body.list) <= MaxRowid
        /\ request' = body
        /\ IF ~body.given
           THEN /\ response' = [route |-> "sync", status |-> 400]
                /\ UNCHANGED <<table, seq>>
           ELSE LET synced == syncAll(body.list, table, seq)
                IN  /\ table' = synced.rows
                    /\ seq' = synced.rowid
                    /\ response' = [route |-> "sync",
                                    status |-> IF synced.threw THEN 500 ELSE 200]
    /\ UNCHANGED <<codecVars, appVars, events, config>>

\* app.delete('/api/events/:id')
DeleteEvent ==
    /\ \E id \in 1..MaxRowid :
        LET kept == SelectSeq(table, LAMBDA row : row.id # id)
        IN  /\ table' = kept
            /\ response' = [route |-> "delete",
                            status |-> IF Len(kept) = Len(table) THEN 404 ELSE 200]
    /\ UNCHANGED <<codecVars, appVars, events, config, seq, request>>

NextServer == SyncEvents \/ DeleteEvent

SpecServer == InitServer /\ [][NextServer]_vars

----------------------------------------------------------------------------
(* C29 *)

\* the step is a call of the sync endpoint
SyncCalled == response'.route = "sync" /\ (request' # request \/ response' # response
                                            \/ table' # table \/ seq' # seq)

\* row stores the posted event under a rowid never used before
Stores(row, event, usedBefore) ==
    /\ row.id > usedBefore
    /\ row.event_type = Get(event, "eventType")
    /\ row.timestamp.k = "isostring"
    /\ NewDate(row.timestamp) = NewDate(Get(event, "timestamp"))
    /\ row.data = restOf(event)

\* C29: POST /api/events/sync is atomic. After a successful call the table
\* holds exactly the posted events, one row each under a fresh id, and
\* nothing else; after a failed call (400 for a body that is not an array,
\* 500 for an event that fails during insertion) the table is what it was.
C29_SyncIsAtomic ==
    [][SyncCalled =>
          /\ response'.status \in {200, 400, 500}
          /\ response'.status = 200 =>
                /\ Len(table') = Len(request'.list)
                /\ \A i \in 1..Len(table') : Stores(table'[i], request'.list[i], seq)
                /\ \A i, j \in 1..Len(table') : i # j => table'[i].id # table'[j].id
          /\ response'.status # 200 => table' = table
          /\ response'.status = 400 <=> ~request'.given
          /\ response'.status = 500 =>
                \E i \in 1..Len(request'.list) : insertRow(request'.list[i], 1).threw]_vars

\* a body whose second event has an unparseable timestamp was refused with
\* 500 while the table held rows, and the rows are still there
C29_Witness ==
    /\ response = [route |-> "sync", status |-> 500]
    /\ Len(request.list) = 2
    /\ ~insertRow(request.list[1], 1).threw
    /\ Get(request.list[2], "timestamp") = Str("yesterday evening")
    /\ Len(table) = 2
    /\ table[1].id = 1

----------------------------------------------------------------------------
(* src/src/utils/statisticsCalculator.js *)

MaxFeeds == 3

\* a number of minutes as the exact quotient ms / (60000 * count)
Minutes(ms, count) == V("minutes", ms, count, "")

\* formatTimeInterval: "<m>m", "<h>h" or "<h>h <m>m", Math.round being
\* floor(x + 1/2)
formatTimeInterval(minutes) ==
    LET unit == 60000 * minutes.m
        hours == minutes.d \div (60 * unit)
        mins == (2 * (minutes.d % (60 * unit)) + unit) \div (2 * unit)
    IN  IF minutes.d < 60 * unit
        THEN [h |-> 0, m |-> (2 * minutes.d + unit) \div (2 * unit), text |-> "m"]
        ELSE IF mins = 0 THEN [h |-> hours, m |-> 0, text |-> "h"]
        ELSE [h |-> hours, m |-> mins, text |-> "h m"]

NotAvailable ==
    [averageMinutes |-> Null,
     formatted |-> [h |-> 0, m |-> 0, text |-> "N/A (need at least 2 feeds)"]]

\* the filter and the map of calculateAverageTimeBetweenFeeds
feedingTimestamps(evs) ==
    LET feeds == SelectSeq(evs, LAMBDA event : Get(event, "eventType") = Str("feeding"))
    IN  [i \in 1..Len(feeds) |-> [timestamp |-> NewDate(Get(feeds[i], "timestamp"))]]

\* the for loop and the reduce: sum of the differences, in milliseconds
RECURSIVE sumOfDifferences(_, _)
sumOfDifferences(feedingEvents, i) ==
    IF i > Len(feedingEvents) THEN 0
    ELSE DiffMs(feedingEvents[i].timestamp, feedingEvents[i - 1].timestamp)
            + sumOfDifferences(feedingEvents, i + 1)

\* the average of feeding events that every carry a valid date; a difference
\* with an Invalid Date is NaN and so is the average
averageOf(feedingEvents) ==
    IF \E i \in 1..Len(feedingEvents) : feedingEvents[i].timestamp.k # "Date"
    THEN [averageMinutes |-> NaN, formatted |-> [h |-> 0, m |-> 0, text |-> "NaNh NaNm"]]
    ELSE LET averageMinutes == Minutes(sumOfDifferences(feedingEvents, 2),
                                       Len(feedingEvents) - 1)
         IN  [averageMinutes |-> averageMinutes,
              formatted |-> formatTimeInterval(averageMinutes)]

\* the function without its .sort(...)
calculateAverageUnsorted(evs) ==
    LET feedingEvents == feedingTimestamps(IF evs.given THEN evs.list ELSE <<>>)
    IN  IF Len(feedingEvents) < 2 THEN NotAvailable ELSE averageOf(feedingEvents)

calculateAverageTimeBetweenFeeds(evs) ==
    LET feedingEvents ==
            sortByTimestamp(feedingTimestamps(IF evs.given THEN evs.list ELSE <<>>),
                            1, <<>>)
    IN  IF Len(feedingEvents) < 2 THEN NotAvailable ELSE averageOf(feedingEvents)

StatSamples ==
    { [eventType |-> Str("feeding"), timestamp |-> DateV(NowDay, At(10, 0, 0))],
      [eventType |-> Str("feeding"), timestamp |-> IsoStr(NowDay, At(11, 0, 0))],
      [eventType |-> Str("feeding"), id |-> Num(3),
       timestamp |-> NumDM(NowDay, At(13, 0, 0))],
      [eventType |-> Str("feeding"), timestamp |-> DateV(NowDay - 1, At(22, 40, 20000))],
      [eventType |-> Str("pooping"), timestamp |-> DateV(NowDay, At(10, 30, 0))],
      [eventType |-> Str("feeding"), timestamp |-> Str("yesterday evening")] }

InitStats ==
    /\ CodecIdle
    /\ AppIdle
    /\ tz = 0
    /\ config = Null
    /\ events \in SeqsUpTo(StatSamples, MaxFeeds)

\* result = calculateAverageTimeBetweenFeeds(events); a caller with no events
\* may pass null or undefined
CalculateAverage ==
    /\ pc = "ready"
    /\ \E evs \in {Given(events)} \cup (IF events = <<>> THEN {NotGiven} ELSE {}) :
        result' = calculateAverageTimeBetweenFeeds(evs)
    /\ pc' = "calculated"
    /\ UNCHANGED <<now, tz, events, config, password, attempt, token, first, err, round,
                   jsonString, hash, decodedString, issued, appVars, serverVars>>

SpecStats == InitStats /\ [][CalculateAverage]_vars

----------------------------------------------------------------------------
(* C30 *)

\* the feeding events of a list, and whether each has a valid date
Feeds(evs) == SelectSeq(evs, LAMBDA event : Get(event, "eventType") = Str("feeding"))
FeedsDated(evs) == \A i \in 1..Len(evs) :
    Get(evs[i], "eventType") = Str("feeding") => HasInstant(evs[i])

\* the latest and the earliest feeding instant
LastFeed(evs) ==
    CHOOSE t \in {Instant(e) : e \in {Feeds(evs)[i] : i \in 1..Len(Feeds(evs))}} :
        \A i \in 1..Len(Feeds(evs)) : LeqDM(Instant(Feeds(evs)[i]), t)
FirstFeed(evs) ==
    CHOOSE t \in {Instant(e) : e \in {Feeds(evs)[i] : i \in 1..Len(Feeds(evs))}} :
        \A i \in 1..Len(Feeds(evs)) : LeqDM(t, Instant(Feeds(evs)[i]))

\* the list with its elements in the order p
Reordered(evs, p) == [i \in 1..Len(evs) |-> evs[p[i]]]

\* C30: with fewer than two feeding events (null or undefined input included)
\* the average is null and the text is the N/A text; otherwise the average is
\* the mean of the gaps between consecutive feeding events in timestamp order,
\* that is the span from the earliest to the latest feed over the number of
\* gaps (NaN when a feeding timestamp is no date, its gaps being NaN),
\* whatever the order of the input array and whatever non-feeding events it
\* holds.
C30_AverageOfGaps ==
    pc = "calculated" =>
        /\ Len(Feeds(events)) < 2 => result = NotAvailable
        /\ (Len(Feeds(events)) >= 2 /\ FeedsDated(events)) =>
              /\ result.averageMinutes
                    = Minutes(DiffMs(LastFeed(events), FirstFeed(events)),
                              Len(Feeds(events)) - 1)
              /\ result.formatted.text \in {"m", "h", "h m"}
        /\ (Len(Feeds(events)) >= 2 /\ ~FeedsDated(events)) =>
              result.averageMinutes = NaN
        /\ \A p \in Permutations(1..Len(events)) :
              calculateAverageTimeBetweenFeeds(Given(Reordered(events, p))) = result
        /\ calculateAverageTimeBetweenFeeds(Given(Feeds(events))) = result

\* three feeds given out of order around a pooping event were averaged
C30_Witness ==
    /\ pc = "calculated"
    /\ Len(events) = 3
    /\ Len(Feeds(events)) = 2
    /\ Get(events[2], "eventType") = Str("pooping")
    /\ LessDM(Instant(events[3]), Instant(events[1]))
    /\ result.averageMinutes = Minutes(40780000, 1)
    /\ result.formatted = [h |-> 11, m |-> 20, text |-> "h m"]

====
